---- MODULE Spec2Model ----
(***************************************************************************)
(* A model of mtsNDISerial, the driver of an NDI Polaris/Aurora tracker    *)
(* that speaks the vendor's ASCII serial protocol                          *)
(* (src/components/code/mtsNDISerial.cpp).                                 *)
(*                                                                         *)
(* Bytes are one-character strings; the zero byte is the token NUL.  The   *)
(* serial buffer is a sequence of bytes, indexed from 1, of which only a   *)
(* prefix is kept: every position past it still holds the zero byte that   *)
(* Init's memset wrote.  Offsets into the buffer (the write cursor, the    *)
(* parse pointers) are counted from 0 as in the C++ code.                  *)
(***************************************************************************)
EXTENDS Integers, Sequences, FiniteSets, TLC

VARIABLES
    mSerialBuffer,         \* char mSerialBuffer[MAX_BUFFER_SIZE], the kept prefix
    mSerialBufferPointer,  \* the write cursor, as an offset from the buffer start
    mReadTimeout,          \* seconds
    mIsTracking,
    mTrackStrayMarkers,
    mStrayMarkers,         \* 50 x 5 matrix, rows 0..49
    mTools,                \* the registry: tool name -> Tool
    mToolNames,            \* the names of the tools, as published
    mPortToTool,           \* port handle -> tool name
    mSerialPortName,
    mSerialPort,           \* the osaSerialPort: opened, name, baud rate
    Events,                \* the payload of the last event emitted, per event
    mailbox,               \* commands queued by consumers, oldest first
    pc,                    \* the periodic task: "idle" between periods, "crashed",
                           \* or "Beep" (in the loop of Beep, for good)
    rx,                    \* bytes waiting unread in the serial port's input
    device,                \* the tracker at the other end of the line
    tick,                  \* history of the current (or last) period: a record
    lastRead,              \* history of the last ResponseRead: a record
    submitted,             \* how many commands consumers have queued so far
    ticks                  \* how many periods the task has run

vars == <<mSerialBuffer, mSerialBufferPointer, mReadTimeout, mIsTracking,
          mTrackStrayMarkers, mStrayMarkers, mTools, mToolNames, mPortToTool,
          mSerialPortName, mSerialPort, Events, mailbox, pc, rx,
          device, tick, lastRead, submitted, ticks>>

(***************************************************************************)
(* Bytes                                                                   *)
(***************************************************************************)
NUL == "NUL"
CR == "\r"
LF == "\n"

\* The printable ASCII characters, codes 32..126, in code order (the grave
\* accent, code 96, is the token GRAVE).
Printable ==
    <<" ", "!", "\"", "#", "$", "%", "&", "'", "(", ")", "*", "+", ",", "-",
      ".", "/", "0", "1", "2", "3", "4", "5", "6", "7", "8", "9", ":", ";",
      "<", "=", ">", "?", "@", "A", "B", "C", "D", "E", "F", "G", "H", "I",
      "J", "K", "L", "M", "N", "O", "P", "Q", "R", "S", "T", "U", "V", "W",
      "X", "Y", "Z", "[", "\\", "]", "^", "_", "GRAVE", "a", "b", "c", "d", "e",
      "f", "g", "h", "i", "j", "k", "l", "m", "n", "o", "p", "q", "r", "s",
      "t", "u", "v", "w", "x", "y", "z", "{", "|", "}", "~">>

Char == {Printable[i] : i \in 1..Len(Printable)} \cup {NUL, CR, LF}

\* The code of a byte (the value of the unsigned char).
Ord ==
    [c \in Char |->
        IF c = NUL THEN 0
        ELSE IF c = LF THEN 10
        ELSE IF c = CR THEN 13
        ELSE 31 + (CHOOSE i \in 1..Len(Printable) : Printable[i] = c)]

HexDigits ==
    <<"0", "1", "2", "3", "4", "5", "6", "7", "8", "9", "A", "B", "C", "D", "E", "F">>

\* printf("%04X"): at least 4 upper-case hex digits, zero padded.
RECURSIVE HexOf(_)
HexOf(n) ==
    IF n < 16 THEN <<HexDigits[n + 1]>>
    ELSE Append(HexOf(n \div 16), HexDigits[(n % 16) + 1])

RECURSIVE ZeroPad(_, _)
ZeroPad(s, width) ==
    IF Len(s) >= width THEN s ELSE ZeroPad(<<"0">> \o s, width)

Format04X(n) == ZeroPad(HexOf(n), 4)

\* The element of a set of one: the value of an expression computed once.
The(S) == CHOOSE x \in S : TRUE

\* The buffer byte at offset off (from 0); past the kept prefix it is zero.
At(buf, off) ==
    IF off >= 0 /\ off < Len(buf) THEN buf[off + 1] ELSE NUL

\* buf with bytes written from offset off (>= 0) on.
WriteAt(buf, off, bytes) ==
    LET n == IF Len(buf) > off + Len(bytes) THEN Len(buf) ELSE off + Len(bytes)
    IN  [i \in 1..n |->
            IF i > off /\ i <= off + Len(bytes) THEN bytes[i - off]
            ELSE IF i <= Len(buf) THEN buf[i]
            ELSE NUL]

\* The C string that starts at offset off: the bytes before the first zero.
CString(buf, off) ==
    LET zeros == {i \in off..(Len(buf) - 1) : At(buf, i) = NUL}
        end == IF zeros = {} THEN Len(buf)
               ELSE CHOOSE i \in zeros : \A j \in zeros : i <= j
    IN  IF off >= Len(buf) THEN <<>> ELSE SubSeq(buf, off + 1, end)

(***************************************************************************)
(* CRC-16                                                                  *)
(***************************************************************************)
\* a ^ b for two hex digits.
XorDigit ==
    LET RECURSIVE Bits(_, _)
        Bits(a, b) ==
            IF a = 0 THEN b
            ELSE IF b = 0 THEN a
            ELSE ((a + b) % 2) + 2 * Bits(a \div 2, b \div 2)
    IN  [a \in 0..15, b \in 0..15 |-> Bits(a, b)]

\* a ^ b for two unsigned ints, digit by digit.
RECURSIVE Xor(_, _)
Xor(a, b) ==
    IF a = 0 THEN b
    ELSE IF b = 0 THEN a
    ELSE XorDigit[a % 16, b % 16] + 16 * Xor(a \div 16, b \div 16)

oddParity == <<0, 1, 1, 0, 1, 0, 0, 1, 1, 0, 0, 1, 0, 1, 1, 0>>

\* One round of a loop that leaves out the parity term.
CRCStep_NoParity(crc, b) ==
    The({Xor(Xor(crc \div 256, temp * 64), temp * 128) :
            temp \in {Xor(b, crc % 256) % 256}})

\* One round of the loop of ComputeCRC, for the byte of code b.
CRCStep(crc, b) ==
    The({Xor(Xor(IF oddParity[(temp % 16) + 1] # oddParity[(temp \div 16) + 1]
                 THEN Xor(crc \div 256, 49153)
                 ELSE crc \div 256,
                 temp * 64),
             temp * 128) :
            temp \in {Xor(b, crc % 256) % 256}})

\* The rounds of the loop of ComputeCRC for the bytes lo..hi of data, in
\* order, from the value crc (the rounds of the first half, then those of
\* the second).
RECURSIVE CRCLoop(_, _, _, _)
CRCLoop(data, lo, hi, crc) ==
    IF lo > hi THEN crc
    ELSE IF lo = hi THEN CRCStep(crc, Ord[data[lo]])
    ELSE LET mid == (lo + hi) \div 2
             first == CRCLoop(data, lo, mid, crc)
         IN  IF first >= 0 THEN CRCLoop(data, mid + 1, hi, first) ELSE first

\* ComputeCRC(data): data is a C string, the loop stops at its first zero byte.
ComputeCRC(buf) ==
    The({CRCLoop(data, 1, Len(data), 0) : data \in {CString(buf, 0)}})

(***************************************************************************)
(* Response reader                                                         *)
(***************************************************************************)
CRC_SIZE == 4

\* strncpy(dst, buf + off, n) read back as a C string: at most n bytes, and
\* none from the first zero byte on.
StrNCpy(buf, off, n) ==
    LET string == CString(buf, off)
    IN  IF Len(string) > n THEN SubSeq(string, 1, n) ELSE string

\* A faulty variant of ResponseCheckCRC: the CRC field is not cut off the
\* buffer before the CRC is computed.
ResponseCheckCRC_NoCut(buf, ptr) ==
    IF ptr - (CRC_SIZE + 1) < 0
    THEN {[ok |-> b, buf |-> buf, ptr |-> ptr - CRC_SIZE, oob |-> TRUE] : b \in BOOLEAN}
    ELSE {[ok |-> (StrNCpy(buf, ptr - (CRC_SIZE + 1), CRC_SIZE)
                   = SubSeq(Format04X(ComputeCRC(buf)), 1, CRC_SIZE)),
           buf |-> cut, ptr |-> ptr - CRC_SIZE, oob |-> FALSE] :
            cut \in {WriteAt(buf, ptr - (CRC_SIZE + 1), <<NUL>>)}}

\* The outcomes of ResponseCheckCRC on the buffer buf with write cursor ptr:
\* records [ok, buf, ptr, oob].  With fewer than CRC_SIZE + 1 bytes received
\* crcPointer lies before the buffer: the reads and the write through it are
\* undefined behaviour (oob), after which either answer can come back.
ResponseCheckCRC(buf, ptr) ==
    IF ptr - (CRC_SIZE + 1) < 0
    THEN {[ok |-> b, buf |-> buf, ptr |-> ptr - CRC_SIZE, oob |-> TRUE] : b \in BOOLEAN}
    ELSE {[ok |-> (StrNCpy(buf, ptr - (CRC_SIZE + 1), CRC_SIZE)
                   = SubSeq(Format04X(ComputeCRC(cut)), 1, CRC_SIZE)),
           buf |-> cut, ptr |-> ptr - CRC_SIZE, oob |-> FALSE] :
            cut \in {WriteAt(buf, ptr - (CRC_SIZE + 1), <<NUL>>)}}

\* How the response timer compares with mReadTimeout when the read loop ends.
Elapsed == {"before", "at", "after"}

\* The read loop of ResponseRead can end before the timeout only on a CR.
LoopEnds(received, elapsed) ==
    elapsed = "before" => (received # <<>> /\ received[Len(received)] = CR)

\* The outcomes of ResponseRead(void) when the loop has read the bytes
\* `received` (all the Read calls together) into the buffer buf.
ResponseRead(buf, received, elapsed) ==
    UNION {IF elapsed = "after"
           THEN {[ok |-> FALSE, buf |-> filled, ptr |-> Len(received), oob |-> FALSE]}
           ELSE ResponseCheckCRC(filled, Len(received)) :
              filled \in {WriteAt(buf, 0, received)}}

(***************************************************************************)
(* sscanf and string.h on the buffer                                       *)
(***************************************************************************)
\* A number the code never set (a local or a member left uninitialized): a
\* value outside the range of every number of the model.  Arithmetic on it
\* gives it back.
Indeterminate == -2000000000

\* A byte the code never set.
IndeterminateChar == "indeterminate"

IsSpace(c) == c \in {" ", LF, CR}

RECURSIVE SkipSpace(_, _)
SkipSpace(buf, off) ==
    IF IsSpace(At(buf, off)) THEN SkipSpace(buf, off + 1) ELSE off

HexValue(c) ==
    IF \E i \in 1..16 : HexDigits[i] = c
    THEN (CHOOSE i \in 1..16 : HexDigits[i] = c) - 1
    ELSE IF c \in {"a", "b", "c", "d", "e", "f"} THEN Ord[c] - 87
    ELSE -1

DecValue(c) == IF HexValue(c) \in 0..9 THEN HexValue(c) ELSE -1

\* The digits of a conversion: at most width of them from offset off, in the
\* given base; [n |-> how many, val |-> their value].
\* acc * 16 + d in the 32 bits of an unsigned int, held as the int of the
\* same bits.
Shift16(acc, d) ==
    The({IF low >= 2 ^ 27 THEN (low - 2 ^ 28) * 16 + d ELSE low * 16 + d :
            low \in {acc % (2 ^ 28)}})

RECURSIVE Digits(_, _, _, _, _)
Digits(buf, off, width, base, acc) ==
    LET d == IF base = 16 THEN HexValue(At(buf, off)) ELSE DecValue(At(buf, off))
    IN  IF width = 0 \/ d < 0 THEN [n |-> 0, val |-> acc]
        ELSE LET rest == Digits(buf, off + 1, width - 1, base,
                                IF base = 16 THEN Shift16(acc, d) ELSE acc * base + d)
             IN  [n |-> rest.n + 1, val |-> rest.val]

\* One numeric conversion of sscanf (%<width>X with base 16, %<width>lf on
\* the wire's signed integers with base 10): leading white space is skipped
\* and is not counted in the width, a sign is; no digit is a matching failure
\* and the end of the string an input failure.  [ok, val, next].  A %X
\* value is the int that has the bits of the unsigned int.
Scan(buf, off, width, base) ==
    LET Signed(start) == At(buf, start) \in {"+", "-"} /\ width > 1
        Converted(start, first, ds) ==
            IF ds.n = 0 THEN [ok |-> FALSE, val |-> 0, next |-> off]
            ELSE [ok |-> TRUE,
                  val |-> IF Signed(start) /\ At(buf, start) = "-"
                          THEN 0 - ds.val ELSE ds.val,
                  next |-> first + ds.n]
        From(start, first) ==
            The({Converted(start, first, ds) :
                    ds \in {Digits(buf, first,
                                   IF Signed(start) THEN width - 1 ELSE width, base, 0)}})
    IN  The({From(start, IF Signed(start) THEN start + 1 ELSE start) :
                start \in {SkipSpace(buf, off)}})

\* The conversions of one sscanf call, in order, each starting where the one
\* before it stopped; the call stops at the first that fails.  The result is
\* the sequence of the values assigned (shorter than widths after a failure).
RECURSIVE ScanAll(_, _, _, _)
ScanAll(buf, off, widths, base) ==
    IF widths = <<>> THEN <<>>
    ELSE The({IF one.ok
              THEN <<one.val>> \o ScanAll(buf, one.next, Tail(widths), base)
              ELSE <<>> : one \in {Scan(buf, off, Head(widths), base)}})

\* strncmp(buf + off, literal, Len(literal)) == 0
StrNCmpEq(buf, off, literal) ==
    \A i \in 1..Len(literal) : At(buf, off + i - 1) = literal[i]

\* sscanf(buf + off, "%<width>c", dst): up to width bytes, white space
\* included, as far as the string goes; the bytes of dst the conversion does
\* not reach stay as they were.
ScanChars(buf, off, width, dst) ==
    LET available == Len(StrNCpy(buf, off, width))
    IN  [i \in 1..Len(dst) |-> IF i <= available THEN At(buf, off + i - 1) ELSE dst[i]]

\* strncmp(a, buf, n) == 0 for a literal a: the bytes are compared up to the
\* end of a or to n of them, whichever comes first; a negative n is a huge
\* size_t.
StrNCmpSame(a, buf, n) ==
    LET last == IF n < 0 \/ n > Len(a) THEN Len(a) ELSE n - 1
    IN  \A i \in 0..last : At(a, i) = At(buf, i)

(***************************************************************************)
(* Numbers, vectors, frames                                                *)
(*                                                                         *)
(* Doubles are kept as integers in a fixed unit: quaternion components,    *)
(* rotation matrix entries and the RMS error in 1/10000, lengths in        *)
(* hundredths of a millimetre (of cmn_mm, the factor to the library's      *)
(* internal unit).  A value read by %lf enters in that unit before the     *)
(* code's Divide is applied to it.  The arithmetic is exact on the poses   *)
(* the model's tracker reports (quaternions whose matrix has whole         *)
(* entries).                                                               *)
(***************************************************************************)
Known(v) == v # Indeterminate

DivideBy(v, d) ==
    The({IF Known(x) THEN x \div d ELSE Indeterminate : x \in {v}})

Plus(a, b) ==
    The({IF Known(x) /\ Known(y) THEN x + y ELSE Indeterminate : x \in {a}, y \in {b}})

Times(a, b) ==
    The({IF Known(x) /\ Known(y) THEN x * y ELSE Indeterminate : x \in {a}, y \in {b}})

Zero3 == <<0, 0, 0>>

\* vctQuatRot3(): the identity, in 1/10000.
QuatIdentity == [W |-> 10000, X |-> 0, Y |-> 0, Z |-> 0]

\* vctMatRot3::FromRaw(quaternion): the matrix of the quaternion as it is,
\* without normalizing it.
RotationFromRaw(quaternion) ==
    LET Minus(a, b) == Plus(a, Times(-1, b))
        Twice(a, b) == Times(2, Times(a, b))
        one == 100000000
        Exact(q) ==
            << <<Minus(Minus(one, Twice(q.Y, q.Y)), Twice(q.Z, q.Z)),
                 Minus(Twice(q.X, q.Y), Twice(q.Z, q.W)),
                 Plus(Twice(q.X, q.Z), Twice(q.Y, q.W))>>,
               <<Plus(Twice(q.X, q.Y), Twice(q.Z, q.W)),
                 Minus(Minus(one, Twice(q.X, q.X)), Twice(q.Z, q.Z)),
                 Minus(Twice(q.Y, q.Z), Twice(q.X, q.W))>>,
               <<Minus(Twice(q.X, q.Z), Twice(q.Y, q.W)),
                 Plus(Twice(q.Y, q.Z), Twice(q.X, q.W)),
                 Minus(Minus(one, Twice(q.X, q.X)), Twice(q.Y, q.Y))>> >>
    IN  The({[i \in 1..3 |-> [j \in 1..3 |-> DivideBy(exact[i][j], 10000)]] :
                exact \in {Exact(q) : q \in {quaternion}}})

RotationIdentity == RotationFromRaw(QuatIdentity)

\* vctFrm3(): the identity frame.
FrameIdentity == [Rotation |-> RotationIdentity, Translation |-> Zero3]

\* rotation * vector, a length again.
Rotate(rotation, vector) ==
    The({[i \in 1..3 |->
             DivideBy(Plus(Plus(Times(R[i][1], v[1]), Times(R[i][2], v[2])),
                           Times(R[i][3], v[3])),
                      10000)] : R \in {rotation}, v \in {vector}})

VecPlus(a, b) == [i \in 1..3 |-> Plus(a[i], b[i])]

\* cmn_mm: one millimetre in the unit the library holds lengths in.  The
\* model holds lengths in hundredths of a millimetre, so that a number of
\* millimetres times cmn_mm is that number.
cmn_mm == 1

(***************************************************************************)
(* Tools                                                                   *)
(***************************************************************************)
\* prmPositionCartesianGet(): not valid, the identity frame.
PositionCartesianGet == [Valid |-> FALSE, Position |-> FrameIdentity]

\* new Tool(), then the three assignments of AddTool.  The constructor sets
\* the tooltip offset and the terminators of the character arrays only.
NewTool(name, serialNumber, definition) ==
    [Name |-> name, SerialNumber |-> serialNumber, Definition |-> definition,
     PortHandle |-> [i \in 1..2 |-> IndeterminateChar],
     MainType |-> [i \in 1..2 |-> IndeterminateChar],
     ManufacturerID |-> [i \in 1..12 |-> IndeterminateChar],
     ToolRevision |-> [i \in 1..3 |-> IndeterminateChar],
     PartNumber |-> [i \in 1..20 |-> IndeterminateChar],
     TooltipOffset |-> Zero3,
     TooltipPosition |-> PositionCartesianGet,
     MarkerPosition |-> PositionCartesianGet,
     ErrorRMS |-> Indeterminate, FrameNumber |-> Indeterminate]

(***************************************************************************)
(* Track: the parse of a TX reply                                          *)
(***************************************************************************)
S_MISSING == <<"M", "I", "S", "S", "I", "N", "G">>
S_DISABLED == <<"D", "I", "S", "A", "B", "L", "E", "D">>
S_UNOCCUPIED == <<"U", "N", "O", "C", "C", "U", "P", "I", "E", "D">>

\* A char[3] holding two bytes read by %2c, as the std::string made from it.
KeyOf(portHandle) == StrNCpy(portHandle, 0, 2)

\* The values of one row: the eight %lf of the sscanf of Track assign, in
\* order, those they reach; a local the call does not reach keeps its value.
Assigned(values, k, old) ==
    IF k <= Len(values) THEN values[k] * 10000 ELSE old

AssignedLength(values, k, old) ==
    IF k <= Len(values) THEN values[k] * 100 ELSE old

\* The body of the for loop of Track for one numeric row at offset off: the
\* locals and the tool after it.
NumericRow(buf, off, st, tool) ==
    LET Scanned(values) ==
            [W |-> Assigned(values, 1, st.toolOrientation.W),
             X |-> Assigned(values, 2, st.toolOrientation.X),
             Y |-> Assigned(values, 3, st.toolOrientation.Y),
             Z |-> Assigned(values, 4, st.toolOrientation.Z),
             position |-> <<AssignedLength(values, 5, st.toolPosition[1]),
                            AssignedLength(values, 6, st.toolPosition[2]),
                            AssignedLength(values, 7, st.toolPosition[3])>>,
             errorRMS |-> Assigned(values, 8, tool.ErrorRMS)]
        Divided(scanned) ==
            [toolOrientation |-> [c \in {"W", "X", "Y", "Z"} |->
                                     DivideBy(scanned[c], 10000)],
             toolPosition |-> [i \in 1..3 |->
                                  Times(DivideBy(scanned.position[i], 100), cmn_mm)],
             errorRMS |-> DivideBy(scanned.errorRMS, 10000)]
        Posed(d, rotation) ==
            [toolOrientation |-> d.toolOrientation,
             toolPosition |-> d.toolPosition,
             errorRMS |-> d.errorRMS,
             marker |-> [Rotation |-> rotation, Translation |-> d.toolPosition],
             tooltip |-> [Rotation |-> rotation,
                          Translation |-> VecPlus(d.toolPosition,
                                                  Rotate(rotation, tool.TooltipOffset))]]
        Row(p) ==
            [toolOrientation |-> p.toolOrientation,
             toolPosition |-> p.toolPosition,
             tooltipPosition |-> p.tooltip,
             tool |-> [tool EXCEPT
                          !.ErrorRMS = p.errorRMS,
                          !.MarkerPosition = [Valid |-> TRUE, Position |-> p.marker],
                          !.TooltipPosition = [Valid |-> TRUE, Position |-> p.tooltip]]]
    IN  The({Row(p) :
                p \in {Posed(d, RotationFromRaw(d.toolOrientation)) :
                          d \in {Divided(Scanned(values)) :
                                    values \in {ScanAll(buf, off, <<6, 6, 6, 6, 7, 7, 7, 6>>,
                                                        10)}}}})

\* Invalidated with the second SetValid(false) left out.
Invalidated_TooltipOnly(tool) ==
    [tool EXCEPT !.TooltipPosition.Valid = FALSE]

\* tool->TooltipPosition.SetValid(false); tool->MarkerPosition.SetValid(false)
Invalidated(tool) ==
    [tool EXCEPT !.TooltipPosition.Valid = FALSE, !.MarkerPosition.Valid = FALSE]

\* The for loop of Track over the rows, from row i of numPortHandles on.
\* st: [tools, off (parsePointer), portHandle, toolOrientation, toolPosition,
\* tooltipPosition, returned (the loop hit one of its return statements)].
RECURSIVE TrackRows(_, _, _, _, _)
TrackRows(buf, portToTool, st, i, numPortHandles) ==
    LET off == st.off + 2
        \* the branch the row takes and the parse pointer after it
        Kind ==
            IF StrNCmpEq(buf, off, S_MISSING) THEN [numeric |-> FALSE, after |-> off + 7 + 8]
            ELSE IF StrNCmpEq(buf, off, S_DISABLED)
            THEN [numeric |-> FALSE, after |-> off + 8 + 8]
            ELSE IF StrNCmpEq(buf, off, S_UNOCCUPIED)
            THEN [numeric |-> FALSE, after |-> off + 10 + 8]
            ELSE [numeric |-> TRUE, after |-> off + (4 * 6) + (3 * 7) + 6 + 8]
        Framed(tool, frame) ==
            IF frame.ok THEN [tool EXCEPT !.FrameNumber = frame.val] ELSE tool
        \* the row of the tool `name`: kind as above, numeric the numeric branch
        Row(portHandle, name, kind, numeric) ==
            [st EXCEPT
                !.tools[name] =
                    Framed(IF kind.numeric THEN numeric.tool ELSE Invalidated(@),
                           Scan(buf, kind.after, 8, 16)),
                !.portHandle = portHandle,
                !.toolOrientation = IF kind.numeric THEN numeric.toolOrientation ELSE @,
                !.toolPosition = IF kind.numeric THEN numeric.toolPosition ELSE @,
                !.tooltipPosition = IF kind.numeric THEN numeric.tooltipPosition ELSE @,
                !.off = IF At(buf, kind.after + 8) = LF
                        THEN kind.after + 8 + 1 ELSE kind.after + 8,
                !.returned = At(buf, kind.after + 8) # LF]
        Body(portHandle) ==
            IF KeyOf(portHandle) \notin DOMAIN portToTool
            THEN [st EXCEPT !.portHandle = portHandle, !.off = off, !.returned = TRUE]
            ELSE The({TrackRows(buf, portToTool, st1, i + 1, numPortHandles) :
                         st1 \in {Row(portHandle, portToTool[KeyOf(portHandle)], kind,
                                      numeric) :
                                    kind \in {Kind},
                                    numeric \in {NumericRow(
                                                    buf, off, st,
                                                    st.tools[portToTool[KeyOf(portHandle)]])}}})
    IN  IF i >= numPortHandles \/ st.returned THEN st
        ELSE The({Body(portHandle) : portHandle \in {ScanChars(buf, st.off, 2, st.portHandle)}})

(***************************************************************************)
(* The stray marker block                                                  *)
(***************************************************************************)
\* mStrayMarkers.SetSize(50, 5)
StrayRows == 50

ZeroRow == <<0, 0, 0, 0, 0>>

\* mStrayMarkers.Zeros()
Zeros == [i \in 0..(StrayRows - 1) |-> ZeroRow]

\* Bit k (0 the lowest) of the bitset<4> made from the byte c and flipped.
FlippedBit(c, k) ==
    LET nibble == Ord[c] % 16
        flipped == 15 - nibble
    IN  (flipped \div (2 ^ k)) % 2

\* outOfVolumeReply[index], filled from the bytes at offset off.
OutOfVolumeReply(buf, off, index) ==
    FlippedBit(At(buf, off + (index \div 4)), 3 - (index % 4))

\* The row the loop over the markers writes for marker i.
StrayRow(buf, off, i, numGarbageBits, flagsOff) ==
    LET Coordinate(values, k) == DivideBy(AssignedLength(values, k, Indeterminate), 100)
    IN  The({<<1, OutOfVolumeReply(buf, flagsOff, i + numGarbageBits),
               Coordinate(values, 1), Coordinate(values, 2), Coordinate(values, 3)>> :
                values \in {ScanAll(buf, off + (3 * 7) * i, <<7, 7, 7>>, 10)}})

\* The stray marker block of Track and of ReportStrayMarkers, parsed at
\* offset off: [matrix, numMarkers, outOfBounds].  A marker past the last row
\* of the matrix is written outside it (outOfBounds).
StrayBlock(buf, off) ==
    LET Block(numMarkers, flagsOff, outOfVolumeReplySize) ==
            [matrix |->
                [i \in 0..(StrayRows - 1) |->
                    IF i < numMarkers
                    THEN StrayRow(buf, flagsOff + outOfVolumeReplySize, i,
                                  (4 * outOfVolumeReplySize) - numMarkers, flagsOff)
                    ELSE ZeroRow],
             numMarkers |-> numMarkers,
             outOfBounds |-> numMarkers > StrayRows]
    IN  The({Block(numMarkers, off + 2, (numMarkers + 3) \div 4) :
                numMarkers \in {IF count.ok THEN count.val ELSE 0 :
                                   count \in {Scan(buf, off, 2, 16)}}})

(***************************************************************************)
(* Track, after its ResponseRead: the parse of the buffer                  *)
(***************************************************************************)
\* [tools, matrix, outOfBounds, returned, numPortHandles, numMarkers];
\* portHandle is what the local array of that name holds on entry.
TrackParse(buf, tools, portToTool, matrix, trackStrayMarkers, portHandle) ==
    LET Start(count) ==
            [numPortHandles |-> IF count.ok THEN count.val ELSE 0,
             st |-> [tools |-> tools, off |-> 2,
                     portHandle |-> portHandle,
                     toolOrientation |-> QuatIdentity,
                     toolPosition |-> <<Indeterminate, Indeterminate, Indeterminate>>,
                     tooltipPosition |-> FrameIdentity,
                     returned |-> FALSE]]
        Parsed(numPortHandles, st, block) ==
            [tools |-> st.tools,
             matrix |-> block.matrix,
             outOfBounds |-> block.outOfBounds,
             returned |-> st.returned,
             numPortHandles |-> numPortHandles,
             numMarkers |-> block.numMarkers]
        NoBlock == [matrix |-> matrix, outOfBounds |-> FALSE, numMarkers |-> 0]
        Rows(numPortHandles, st) ==
            The({Parsed(numPortHandles, st, block) :
                    block \in {IF trackStrayMarkers /\ ~st.returned
                               THEN StrayBlock(buf, st.off) ELSE NoBlock}})
        Counted(from) ==
            The({Rows(from.numPortHandles, st) :
                    st \in {TrackRows(buf, portToTool, from.st, 0, from.numPortHandles)}})
    IN  The({Counted(from) : from \in {Start(count) : count \in {Scan(buf, 0, 2, 16)}}})

(***************************************************************************)
(* The tracker's side of the wire: how it writes its replies               *)
(***************************************************************************)
RECURSIVE DecOf(_)
DecOf(n) ==
    IF n < 10 THEN <<HexDigits[n + 1]>>
    ELSE Append(DecOf(n \div 10), HexDigits[(n % 10) + 1])

\* n as `width` upper-case hex digits.
HexField(n, width) == ZeroPad(HexOf(n), width)

\* v as a sign and `digits` decimal digits, the wire's implicit fixed point.
SignedField(v, digits) ==
    <<IF v < 0 THEN "-" ELSE "+">> \o ZeroPad(DecOf(IF v < 0 THEN 0 - v ELSE v), digits)

RECURSIVE Flatten(_)
Flatten(parts) ==
    IF parts = <<>> THEN <<>> ELSE Head(parts) \o Flatten(Tail(parts))

\* A reply on the line: the payload, its CRC as 4 hex digits, a CR.
Frame(payload) == payload \o Format04X(ComputeCRC(payload)) \o <<CR>>

PortStatus == HexField(0, 8)

\* One row of a TX reply.  row: [handle, kind, q (w, x, y, z in 1/10000),
\* t (x, y, z in 1/100 mm), error (1/10000), lf (the row ends with LF),
\* digits (how many digits follow the sign of a translation field: 6 on the
\* wire of the tracker, which makes the field 7 characters)].
\* Without reply option 0001 a row is the handle alone.
TXRow(row, frame, transforms) ==
    row.handle
    \o (IF ~transforms THEN <<>>
        ELSE (IF row.kind = "numeric"
              THEN Flatten([i \in 1..4 |-> SignedField(row.q[i], 5)])
                   \o Flatten([i \in 1..3 |-> SignedField(row.t[i], row.digits)])
                   \o SignedField(row.error, 5)
              ELSE IF row.kind = "MISSING" THEN S_MISSING
              ELSE IF row.kind = "DISABLED" THEN S_DISABLED
              ELSE S_UNOCCUPIED)
             \o PortStatus
             \o HexField(frame, 8))
    \o (IF row.lf THEN <<LF>> ELSE <<>>)

\* The stray marker block of a TX reply.  strays: [count (the count field),
\* flags (the out-of-volume bytes), positions (the markers that follow)].
TXStrays(strays) ==
    HexField(strays.count, 2)
    \o strays.flags
    \o Flatten([i \in 1..Len(strays.positions) |->
                   Flatten([k \in 1..3 |-> SignedField(strays.positions[i][k], 6)])])

SystemStatus == HexField(0, 4)

\* The payload of a TX reply.  reply: [rows, strays]; option: [transforms
\* (0001), strays (1000)].
TXPayload(reply, option, frame) ==
    HexField(Len(reply.rows), 2)
    \o Flatten([i \in 1..Len(reply.rows) |->
                   TXRow(reply.rows[i], frame, option.transforms)])
    \o (IF option.strays THEN TXStrays(reply.strays) ELSE <<>>)
    \o SystemStatus

(***************************************************************************)
(* The tracker                                                             *)
(*                                                                         *)
(* device: [tracking, baud, frame (its frame counter), sent (which of      *)
(* TXReplies answered the last TX, 0 before the first), repertoire (the    *)
(* TXReplies it can send), faults (how many more times the line may lose,  *)
(* damage or delay something), noise (on which exchanges it may)].         *)
(***************************************************************************)
\* The frame counter of the tracker counts modulo MaxFrame.
MaxFrame == 3

\* How many times the line may misbehave in a run.
MaxFaults == 1

OKAY == <<"O", "K", "A", "Y">>
ERROR01 == <<"E", "R", "R", "O", "R", "0", "1">>
TSTART == <<"T", "S", "T", "A", "R", "T", " ", "8", "0">>
TSTOP == <<"T", "S", "T", "O", "P", " ">>
TX0001 == <<"T", "X", " ", "0", "0", "0", "1">>
TX1000 == <<"T", "X", " ", "1", "0", "0", "0">>
TX1001 == <<"T", "X", " ", "1", "0", "0", "1">>

\* The port handles of the tracker: those of the two tools plugged into it,
\* and the one it gives out on PHRQ.
Handles == << <<"0", "1">>, <<"0", "2">>, <<"0", "3">> >>

\* The TX replies of the model's tracker: well-formed ones, the ones a
\* tracker whose tool set changed, or a noisy line, can produce, and last a
\* reply whose translation fields are written with one digit too many.
TXReplies ==
    LET A == [q |-> <<10000, 0, 0, 0>>, t |-> <<10000, 0, 0>>, error |-> 100]
        B == [q |-> <<0, 10000, 0, 0>>, t |-> <<-5000, 250, 100000>>, error |-> 2500]
        Numeric(h, pose, lf) ==
            [handle |-> h, kind |-> "numeric", q |-> pose.q, t |-> pose.t,
             error |-> pose.error, lf |-> lf, digits |-> 6]
        Status(h, kind) ==
            [handle |-> h, kind |-> kind, q |-> <<0, 0, 0, 0>>, t |-> <<0, 0, 0>>,
             error |-> 0, lf |-> TRUE, digits |-> 6]
        NoStrays == [count |-> 0, flags |-> <<>>, positions |-> <<>>]
        marker == <<12345, -50, 0>>
        Strays(n, flags) ==
            [count |-> n, flags |-> flags, positions |-> [i \in 1..n |-> marker]]
    IN  << [rows |-> <<Numeric(Handles[1], A, TRUE), Numeric(Handles[2], B, TRUE)>>,
            strays |-> NoStrays],
           [rows |-> <<Status(Handles[1], "MISSING"), Numeric(Handles[2], A, TRUE)>>,
            strays |-> Strays(3, <<"E">>)],
           [rows |-> <<Status(Handles[1], "DISABLED"), Status(Handles[2], "UNOCCUPIED")>>,
            strays |-> NoStrays],
           [rows |-> <<Numeric(Handles[1], B, TRUE)>>,
            strays |-> Strays(1, <<"1">>)],
           [rows |-> <<Numeric(Handles[1], B, TRUE), Numeric(<<"0", "A">>, A, TRUE),
                       Numeric(Handles[2], A, TRUE)>>,
            strays |-> NoStrays],
           [rows |-> <<Numeric(Handles[1], A, FALSE), Numeric(Handles[2], B, TRUE)>>,
            strays |-> NoStrays],
           [rows |-> <<Numeric(Handles[1], A, TRUE)>>,
            strays |-> Strays(StrayRows + 1, [i \in 1..13 |-> "F"])],
           [rows |-> <<[Numeric(Handles[1], A, TRUE) EXCEPT !.digits = 7]>>,
            strays |-> NoStrays] >>

Repertoire(name) ==
    IF name = "all" THEN 1..Len(TXReplies) ELSE {1, 3}

\* The reply options of a TX command: the digits of its argument.
TXOption(command) ==
    [transforms |-> At(command, 6) = "1", strays |-> At(command, 3) = "1"]

\* Every TX reply frame of the tracker, by reply, command and frame number.
TXFrames ==
    [id \in 1..Len(TXReplies), command \in {TX0001, TX1001, TX1000},
     frame \in 0..(MaxFrame - 1) |->
        Frame(TXPayload(TXReplies[id], TXOption(command), frame))]

(***************************************************************************)
(* The tracker during bring-up                                             *)
(*                                                                         *)
(* device.ports: for each of Handles, how far its port handle is: "free"   *)
(* (not given out), "occupied", "initialized" or "enabled".                *)
(* device.kit: the tools at the tracker, a name of Kits.                   *)
(* device.zeros: how many more PHINF replies report a serial number of all *)
(* zeros, as a tracker on a USB port does for a while.                     *)
(* device.busy: how the tracker answers BEEP: "idle" (1, it beeps), "once" *)
(* (0, busy, to the next BEEP and not after) or "forever" (0 to every      *)
(* BEEP).                                                                  *)
(***************************************************************************)
\* What PHINF reports about the tools: main type, manufacturer, tool
\* revision, serial number, channel.  The third is the passive tool of the
\* tool definition file.
DeviceTools ==
    << [mainType |-> <<"0", "2">>, manufacturer |-> <<"N", "D", "I", " ", " ", " ", " ", " ", " ", " ", " ", " ">>, revision |-> <<"0", "0", "1">>,
        serial |-> <<"3", "4", "0", "0", "A", "0", "0", "1">>, channel |-> <<"0", "0">>],
       [mainType |-> <<"0", "1">>, manufacturer |-> <<"N", "D", "I", " ", " ", " ", " ", " ", " ", " ", " ", " ">>, revision |-> <<"0", "0", "2">>,
        serial |-> <<"3", "4", "0", "0", "B", "0", "0", "2">>, channel |-> <<"0", "0">>],
       [mainType |-> <<"0", "2">>, manufacturer |-> <<"N", "D", "I", " ", " ", " ", " ", " ", " ", " ", " ", " ">>, revision |-> <<"0", "0", "3">>,
        serial |-> <<"3", "4", "0", "0", "C", "0", "0", "3">>, channel |-> <<"0", "0">>] >>

\* A dual 5-DoF tool in place of the two tools: one serial number, its
\* channels on the two handles.
DualTools ==
    [DeviceTools EXCEPT ![2] = [DeviceTools[1] EXCEPT !.channel = <<"0", "1">>]]

\* The two tools with other main types: those PortHandlesEnable knows, and
\* one it does not know on the first or on the second handle.
OfMainTypes(first, second) ==
    [DeviceTools EXCEPT ![1].mainType = first, ![2].mainType = second]

Kits ==
    [probes |-> DeviceTools, dual |-> DualTools,
     buttons |-> OfMainTypes(<<"0", "3">>, <<"0", "4">>),
     carm |-> OfMainTypes(<<"0", "A">>, <<"0", "C">>),
     strange |-> OfMainTypes(<<"0", "C">>, <<"0", "1">>)]

ZeroSerial == <<"0", "0", "0", "0", "0", "0", "0", "0">>

\* The port handles of a tracker just switched on or reset.
PortsSwitchedOn == <<"occupied", "occupied", "free">>

\* The PHINF reply for options 0001 and 0020: tool type (main type, number
\* of switches, number of LEDs, reserved, subtype), manufacturer, revision,
\* serial number, port status; then the physical port location (hardware
\* device, system type, tool type, port number, channel).
PHINFPayload(tool, i) ==
    tool.mainType \o <<"0">> \o <<"0">> \o <<"0", "0">> \o <<"0", "0">>
    \o tool.manufacturer \o tool.revision \o tool.serial \o <<"0", "1">>
    \o <<"0", "0", "0", "0", "0", "0", "0", "0">> \o <<"0">> \o <<"0">> \o Handles[i] \o tool.channel

\* The PHSR reply listing the handles in the given states.
PHSRPayload(dev, states) ==
    LET listed == SelectSeq([i \in 1..Len(Handles) |-> i],
                            LAMBDA i : dev.ports[i] \in states)
    IN  HexField(Len(listed), 2)
        \o Flatten([k \in 1..Len(listed) |-> Handles[listed[k]] \o <<"0", "0", "1">>])

HandleIndex(handle) ==
    IF \E i \in 1..Len(Handles) : Handles[i] = handle
    THEN CHOOSE i \in 1..Len(Handles) : Handles[i] = handle
    ELSE 0

\* A serial break: the tracker restarts at 9600 baud.
DeviceReset(dev) ==
    [dev EXCEPT !.tracking = FALSE, !.baud = 9600,
                !.ports = PortsSwitchedOn]

\* The commands of bring-up the tracker knows, in the order it tries them:
\* arg lists the port states PHSR reports, or the step PINIT and PENA make.
SetupCommands ==
    << [prefix |-> <<"I", "N", "I", "T", " ">>, kind |-> "init",
        arg |-> <<>>],
       [prefix |-> <<"V", "E", "R", " ", "5">>, kind |-> "ver5",
        arg |-> <<>>],
       [prefix |-> <<"V", "E", "R", " ">>, kind |-> "ver",
        arg |-> <<>>],
       [prefix |-> <<"C", "O", "M", "M", " ">>, kind |-> "comm",
        arg |-> <<>>],
       [prefix |-> <<"P", "H", "S", "R", " ", "0", "0">>, kind |-> "phsr",
        arg |-> <<"occupied", "initialized", "enabled">>],
       [prefix |-> <<"P", "H", "S", "R", " ", "0", "1">>, kind |-> "phsr",
        arg |-> <<>>],
       [prefix |-> <<"P", "H", "S", "R", " ", "0", "2">>, kind |-> "phsr",
        arg |-> <<"occupied">>],
       [prefix |-> <<"P", "H", "S", "R", " ", "0", "3">>, kind |-> "phsr",
        arg |-> <<"initialized">>],
       [prefix |-> <<"P", "I", "N", "I", "T", " ">>, kind |-> "step",
        arg |-> <<"occupied", "initialized">>],
       [prefix |-> <<"P", "E", "N", "A", " ">>, kind |-> "step",
        arg |-> <<"initialized", "enabled">>],
       [prefix |-> <<"P", "H", "I", "N", "F", " ">>, kind |-> "phinf",
        arg |-> <<>>],
       [prefix |-> <<"P", "H", "R", "Q", " ">>, kind |-> "phrq",
        arg |-> <<>>],
       [prefix |-> <<"P", "V", "W", "R", " ">>, kind |-> "pvwr",
        arg |-> <<>>],
       [prefix |-> <<"B", "E", "E", "P", " ">>, kind |-> "beep",
        arg |-> <<>>] >>

\* The entry of SetupCommands a command matches, kind "unknown" if none.
SetupCommand(command) ==
    IF \E i \in 1..Len(SetupCommands) : StrNCmpEq(command, 0, SetupCommands[i].prefix)
    THEN SetupCommands[CHOOSE i \in 1..Len(SetupCommands) :
                          /\ StrNCmpEq(command, 0, SetupCommands[i].prefix)
                          /\ \A j \in 1..(i - 1) :
                                 ~StrNCmpEq(command, 0, SetupCommands[j].prefix)]
    ELSE [prefix |-> <<>>, kind |-> "unknown", arg |-> <<>>]

\* The commands of bring-up: [device, payload] (one answer each).
DeviceSetup(dev, command) ==
    The({IF e.kind = "init"
         THEN [device |-> [dev EXCEPT !.tracking = FALSE], payload |-> OKAY]
         ELSE IF e.kind = "comm"
         THEN [device |-> [dev EXCEPT !.baud = IF At(command, 5) = "5" THEN 115200
                                               ELSE 9600],
               payload |-> OKAY]
         ELSE IF e.kind = "step"
         THEN IF i # 0 /\ dev.ports[i] = e.arg[1]
              THEN [device |-> [dev EXCEPT !.ports[i] = e.arg[2]], payload |-> OKAY]
              ELSE [device |-> dev, payload |-> ERROR01]
         ELSE IF e.kind = "phrq"
         THEN IF free # 0
              THEN [device |-> [dev EXCEPT !.ports[free] = "occupied"],
                    payload |-> Handles[free]]
              ELSE [device |-> dev, payload |-> ERROR01]
         ELSE IF e.kind = "phinf" /\ i # 0 /\ dev.ports[i] # "free" /\ dev.zeros > 0
         THEN [device |-> [dev EXCEPT !.zeros = @ - 1],
               payload |-> PHINFPayload([Kits[dev.kit][i] EXCEPT !.serial = ZeroSerial],
                                        i)]
         ELSE IF e.kind = "beep" /\ dev.busy # "idle"
         THEN [device |-> [dev EXCEPT !.busy = IF @ = "once" THEN "idle" ELSE @],
               payload |-> <<"0">>]
         ELSE [device |-> dev,
               payload |-> IF e.kind = "ver5" THEN dev.firmware
                           ELSE IF e.kind = "ver"
                           THEN <<"P", "o", "l", "a", "r", "i", "s">>
                           ELSE IF e.kind = "phsr"
                           THEN PHSRPayload(dev, {e.arg[k] : k \in 1..Len(e.arg)})
                           ELSE IF e.kind = "phinf" /\ i # 0 /\ dev.ports[i] # "free"
                           THEN PHINFPayload(Kits[dev.kit][i], i)
                           ELSE IF e.kind = "pvwr" THEN OKAY
                           ELSE IF e.kind = "beep" THEN <<"1">>
                           ELSE ERROR01] :
            e \in {SetupCommand(command)},
            i \in {HandleIndex(StrNCpy(command, Len(SetupCommand(command).prefix), 2))},
            free \in {IF \E k \in 1..Len(Handles) : dev.ports[k] = "free"
                      THEN CHOOSE k \in 1..Len(Handles) : dev.ports[k] = "free"
                      ELSE 0}})

\* What the tracker does with a command: the set of [device, bytes], its
\* state afterwards and the frame it puts on the line.
DeviceReact(dev, command) ==
    IF dev.tracking /\ command \in {TX0001, TX1001, TX1000}
    THEN {[device |-> [dev EXCEPT !.frame = (@ + 1) % MaxFrame, !.sent = id],
           bytes |-> TXFrames[id, command, dev.frame]] :
             id \in Repertoire(dev.repertoire)}
    ELSE {[device |-> r.device, bytes |-> Frame(r.payload)] :
             r \in {IF StrNCmpEq(command, 0, <<"T", "X", " ">>)
                    THEN [device |-> dev, payload |-> ERROR01]
                    ELSE IF command \in {TSTART, TSTOP}
                    THEN IF dev.tracking = (command = TSTART)
                         THEN [device |-> dev, payload |-> ERROR01]
                         ELSE [device |-> [dev EXCEPT !.tracking = (command = TSTART)],
                               payload |-> OKAY]
                    ELSE DeviceSetup(dev, command)}}

\* A frame hit by line noise: its last payload byte is another one.
Damaged(bytes) ==
    LET at == Len(bytes) - (CRC_SIZE + 1)
    IN  [bytes EXCEPT ![at] = IF @ = "1" THEN "0" ELSE "1"]

\* What the line makes of what the tracker does, as [device, bytes, late]:
\* while faults are left the command or the reply can be lost, the reply
\* damaged, or the reply late (after the reader's timeout; not on a line
\* whose noise is "query").
Faulty(dev, reactions) ==
    UNION {{[device |-> r.device, bytes |-> r.bytes, late |-> FALSE]}
           \cup (IF dev.faults = 0 THEN {}
                 ELSE {[device |-> [dev EXCEPT !.faults = @ - 1], bytes |-> <<>>,
                        late |-> FALSE]}
                      \cup {[device |-> [r.device EXCEPT !.faults = @ - 1],
                              bytes |-> b.bytes, late |-> b.late] :
                               b \in {[bytes |-> <<>>, late |-> FALSE],
                                      [bytes |-> Damaged(r.bytes), late |-> FALSE]}
                                     \cup (IF dev.noise = "query" THEN {}
                                           ELSE {[bytes |-> r.bytes, late |-> TRUE]})}) :
              r \in reactions}

\* The commands of tracking mode.
IsTrackingCommand(command) ==
    StrNCmpEq(command, 0, <<"T", "X", " ">>) \/ StrNCmpEq(command, 0, <<"T", "S", "T">>)

PHINF == <<"P", "H", "I", "N", "F", " ">>

\* The commands that open a session: COMM, INIT and VER.
IsSessionCommand(command) ==
    \/ StrNCmpEq(command, 0, <<"C", "O", "M", "M">>)
    \/ StrNCmpEq(command, 0, <<"I", "N", "I", "T">>)
    \/ StrNCmpEq(command, 0, <<"V", "E", "R">>)

\* What a written command leaves on the line: the set of [device, bytes,
\* late].  The command reaches a tracker that listens at the port's baud
\* rate; dev.noise tells which exchanges the line can fail on: those of
\* tracking mode ("tracking"), these and the ones that open a session
\* ("session"), the queries of a port handle ("query"), or all of them
\* ("always").
DeviceReplies(dev, command, baud) ==
    IF dev.baud # baud THEN {[device |-> dev, bytes |-> <<>>, late |-> FALSE]}
    ELSE Faulty([dev EXCEPT !.faults = IF \/ dev.noise = "always"
                                          \/ (dev.noise \in {"tracking", "session"}
                                              /\ IsTrackingCommand(command))
                                          \/ (dev.noise = "session"
                                              /\ IsSessionCommand(command))
                                          \/ (dev.noise = "query"
                                              /\ StrNCmpEq(command, 0, PHINF))
                                       THEN @ ELSE 0],
                DeviceReact(dev, command))

(***************************************************************************)
(* Command writer                                                          *)
(*                                                                         *)
(* The buffer and its write cursor travel together as [buf, ptr].          *)
(***************************************************************************)
CommandInitialize(line) == [line EXCEPT !.ptr = 0]

\* CommandAppend(const char *) and CommandAppend(const char): the bytes of
\* command (none of them zero for the string form) at the cursor.
CommandAppend(line, command) ==
    [buf |-> WriteAt(line.buf, line.ptr, command), ptr |-> line.ptr + Len(command)]

\* CommandSend(void): CR and a zero byte are appended and the buffer is
\* written to the port as a C string: [buf, ptr, bytes (what Write is given)].
CommandSend(line) ==
    LET ended == CommandAppend(CommandAppend(line, <<CR>>), <<NUL>>)
    IN  [buf |-> ended.buf, ptr |-> ended.ptr, bytes |-> CString(ended.buf, 0)]

\* CommandSend(const char * command)
CommandSendString(line, command) ==
    CommandSend(CommandAppend(CommandInitialize(line), command))

(***************************************************************************)
(* The handlers                                                            *)
(*                                                                         *)
(* A handler is an operator from the state before the call, a record s     *)
(* with one field per variable the periodic task owns, to the set of the   *)
(* states it can return in: one for each thing the line and the tracker    *)
(* can do meanwhile.  A handler whose build can die in it (undefined       *)
(* behaviour) also returns states with pc = "crashed".                     *)
(***************************************************************************)
\* The history of the period grows by one entry: op and its argument, a
\* sequence of bytes or of words.
Logged(s, op, arg) ==
    [s EXCEPT !.tick.log = Append(@, [op |-> op, arg |-> arg])]

\* The tracker hears what is written to the opened port it is plugged into.
TrackerPort == "port"

\* CommandSend(command): the buffer holds the command and mSerialPort.Write
\* has been given it; [s, ok (what CommandSend returns)].  The history tells
\* a command the port took ("write") from one it did not ("unsent").
Transmit(s, line) ==
    UNION {UNION {IF ~s.mSerialPort.opened
                  THEN {[s |-> wrote, ok |-> FALSE]}
                  ELSE IF s.mSerialPort.name # TrackerPort
                  THEN {[s |-> wrote, ok |-> TRUE]}
                  ELSE {[s |-> [wrote EXCEPT
                                   !.device = d.device,
                                   !.rx = [bytes |-> s.rx.bytes \o d.bytes,
                                           stale |-> Len(s.rx.bytes), late |-> d.late]],
                         ok |-> TRUE] :
                           d \in DeviceReplies(wrote.device, command,
                                               s.mSerialPort.baud)} :
                     wrote \in {Logged([s EXCEPT !.mSerialBuffer = line.buf,
                                                 !.mSerialBufferPointer = line.ptr,
                                                 !.device.sent = 0],
                                       IF s.mSerialPort.opened THEN "write"
                                       ELSE "unsent", command)}} :
              command \in {SubSeq(line.bytes, 1, Len(line.bytes) - 1)}}

\* ResponseRead(void) when the loop ends with the first n of the bytes in the
\* port read: [s, ok].
ReceiveUpTo(s, bytes, n, elapsed) ==
    {[s |-> Logged([s EXCEPT
                       !.rx = [bytes |-> SubSeq(bytes, n + 1, Len(bytes)),
                               stale |-> s.rx.stale - stale, late |-> FALSE],
                       !.mSerialBuffer = r.buf,
                       !.mSerialBufferPointer = r.ptr,
                       !.lastRead = [done |-> TRUE, received |-> received,
                                     elapsed |-> elapsed, ok |-> r.ok,
                                     stale |-> stale, oob |-> r.oob]],
                   "read", IF r.ok THEN <<"ok">> ELSE <<"failed">>),
      ok |-> r.ok] :
        r \in UNION {ResponseRead(s.mSerialBuffer, received, elapsed) :
                        received \in {SubSeq(bytes, 1, n)}},
        received \in {SubSeq(bytes, 1, n)},
        stale \in {IF n < s.rx.stale THEN n ELSE s.rx.stale}}

\* The ends of the loop of ResponseRead(void) when a of the bytes arrive
\* before the timeout, as [n, elapsed]: in time on any CR that has arrived,
\* with all the bytes up to it; after the timeout with all that has arrived
\* when that does not end with a CR.
ReceiveEnds(bytes, a) ==
    {[n |-> k, elapsed |-> "before"] : k \in {k \in 1..a : bytes[k] = CR}}
    \cup (IF a = 0 \/ bytes[a] # CR THEN {[n |-> a, elapsed |-> "after"]} ELSE {})

\* ResponseRead(void): [s, ok].  Of a late reply nothing or half arrives
\* before the timeout.
Receive(s) ==
    UNION {UNION {UNION {ReceiveUpTo(s, bytes, e.n, e.elapsed) :
                            e \in ReceiveEnds(bytes, a)} :
                     a \in IF s.rx.late
                           THEN {s.rx.stale,
                                 s.rx.stale + ((Len(bytes) - s.rx.stale) \div 2)}
                           ELSE {Len(bytes)}} :
              bytes \in {IF s.mSerialPort.opened THEN s.rx.bytes ELSE <<>>}}

\* GetSerialBufferStringSize(), after a response was read
GetSerialBufferStringSize(s) == s.mSerialBufferPointer - 1

\* ResponseRead(expectedMessage): [s, ok]; the history tells whether the
\* expected message was read ("match").
ResponseReadExpected(s, expectedMessage) ==
    UNION {{[s |-> Logged(r.s, "match", IF ok THEN <<"ok">> ELSE <<"failed">>),
             ok |-> ok] :
               ok \in {r.ok /\ StrNCmpSame(expectedMessage, r.s.mSerialBuffer,
                                            GetSerialBufferStringSize(r.s))}} :
              r \in Receive(s)}

CurrentLine(s) == [buf |-> s.mSerialBuffer, ptr |-> s.mSerialBufferPointer]

\* Exchange with the command sent a second time before the read.
Exchange_Pipelined(s, command) ==
    UNION {UNION {Receive(u.s) :
                     u \in Transmit(t.s, CommandSendString(CurrentLine(t.s), command))} :
              t \in Transmit(s, CommandSendString(CurrentLine(s), command))}

\* CommandSend(command); ResponseRead(): [s, ok (of the read)]
Exchange(s, command) ==
    UNION {Receive(t.s) : t \in Transmit(s, CommandSendString(CurrentLine(s), command))}

\* CommandSend(command); ResponseRead(expectedMessage): [s, ok (of the read)]
ExchangeExpected(s, command, expectedMessage) ==
    UNION {ResponseReadExpected(t.s, expectedMessage) :
              t \in Transmit(s, CommandSendString(CurrentLine(s), command))}

\* Events.Tracking(track): the payload is kept and the history tells that
\* the event was emitted.
EmitTracking(s, track) ==
    Logged([s EXCEPT !.Events.Tracking = <<track>>], "event",
           <<"Tracking", IF track THEN "true" ELSE "false">>)

\* ToggleTracking that takes every reply for OKAY.
ToggleTracking_Unchecked(s, track) ==
    IF track = s.mIsTracking THEN {s}
    ELSE {EmitTracking([r.s EXCEPT !.mIsTracking = track], track) :
            r \in ExchangeExpected(s, IF track THEN TSTART ELSE TSTOP, OKAY)}

ToggleTracking(s, track) ==
    IF track = s.mIsTracking THEN {s}
    ELSE {IF r.ok
          THEN EmitTracking([r.s EXCEPT !.mIsTracking = track], track)
          ELSE r.s :
            r \in ExchangeExpected(s, IF track THEN TSTART ELSE TSTOP, OKAY)}

ToggleStrayMarkers(s, stray) == [s EXCEPT !.mTrackStrayMarkers = stray]

\* What an uninitialized char portHandle[3] can hold: anything, and what
\* the same stack slot held in an earlier call.
IndeterminateHandles(s) ==
    {<<IndeterminateChar, IndeterminateChar>>} \cup DOMAIN s.mPortToTool

\* A write past the last row of mStrayMarkers is undefined behaviour: the
\* task goes on with the heap behind the matrix overwritten, or dies.
AfterOutOfBounds(s, outOfBounds) ==
    IF outOfBounds THEN {s, [s EXCEPT !.pc = "crashed"]} ELSE {s}

Track(s) ==
    UNION {UNION {AfterOutOfBounds(
                      [r.s EXCEPT !.mTools = p.tools, !.mStrayMarkers = p.matrix,
                                  !.tick.track = [ran |-> TRUE, ok |-> r.ok,
                                                  returned |-> p.returned,
                                                  numPortHandles |-> p.numPortHandles,
                                                  numMarkers |-> p.numMarkers,
                                                  outOfBounds |-> p.outOfBounds,
                                                  sent |-> r.s.device.sent]],
                      p.outOfBounds) :
                     p \in {TrackParse(r.s.mSerialBuffer, r.s.mTools, r.s.mPortToTool,
                                       r.s.mStrayMarkers, r.s.mTrackStrayMarkers,
                                       portHandle)}} :
              r \in Exchange(Logged(s, "track", <<>>),
                             IF ~s.mTrackStrayMarkers THEN TX0001 ELSE TX1001),
              portHandle \in IndeterminateHandles(s)}

\* The for loop over the port handles only moves the parse pointer.
ReportStrayMarkers(s) ==
    UNION {IF u.pc = "crashed" THEN {u} ELSE ToggleTracking(u, s.mIsTracking) :
              u \in UNION {UNION {UNION {
                       AfterOutOfBounds([r.s EXCEPT !.mStrayMarkers = block.matrix],
                                        block.outOfBounds) :
                           block \in {StrayBlock(r.s.mSerialBuffer,
                                                 2 + (2 + 1) * (IF count.ok THEN count.val
                                                                ELSE 0)) :
                                         count \in {Scan(r.s.mSerialBuffer, 0, 2, 16)}}} :
                           r \in Exchange(t, TX1000)} :
                           t \in ToggleTracking(s, TRUE)}}

\* The characters of "%d" for an int.
RECURSIVE DecimalOf(_)
DecimalOf(n) ==
    IF n < 0 THEN <<"-">> \o DecimalOf(-n)
    ELSE IF n < 10 THEN <<HexDigits[n + 1]>>
    ELSE DecimalOf(n \div 10) \o <<HexDigits[(n % 10) + 1]>>

\* A pass of the do loop of Beep that ends in state t after it began in
\* state s has changed nothing of the component, the line and the tracker.
SamePass(s, t) ==
    [t EXCEPT !.tick = s.tick, !.lastRead = s.lastRead] = s

\* Beep(numberOfBeeps): the do loop, which goes round again while the
\* response read begins with 0.  An invalid number is logged, and the loop
\* entered all the same.
\* The loop has no other exit than a failed read and a response that does
\* not begin with 0: a pass that ends where it began and goes round again
\* is followed by the same pass without end, and Beep does not return
\* (pc = "Beep").
RECURSIVE Beep(_, _)
Beep(s, numberOfBeeps) ==
    UNION {UNION {IF r.ok /\ StrNCmpEq(r.s.mSerialBuffer, 0, <<"0">>)
                  THEN IF SamePass(s, r.s) THEN {[r.s EXCEPT !.pc = "Beep"]}
                       ELSE Beep(r.s, numberOfBeeps)
                  ELSE {r.s} :
                     r \in Receive(t.s)} :
              t \in Transmit(s, CommandSend(
                       CommandAppend(CommandAppend(CommandInitialize(CurrentLine(s)),
                                                   <<"B", "E", "E", "P", " ">>),
                                     DecimalOf(numberOfBeeps))))}

\* mSerialPort.Close(): what waits unread in the port is dropped.
Close(s) ==
    Logged([s EXCEPT !.mSerialPort.opened = FALSE,
                     !.rx = [bytes |-> <<>>, stale |-> 0, late |-> FALSE]],
           "close", <<s.mSerialPort.name>>)

\* Disconnect without the assignment that follows ToggleTracking(false).
Disconnect_IfStopped(s) ==
    {[Close(t) EXCEPT !.Events.Connected = <<"">>] : t \in ToggleTracking(s, FALSE)}

Disconnect(s) ==
    {[Close([t EXCEPT !.mIsTracking = FALSE]) EXCEPT !.Events.Connected = <<"">>] :
        t \in ToggleTracking(s, FALSE)}


(***************************************************************************)
(* Bring-up                                                                *)
(***************************************************************************)
\* The serial ports of the machine that mSerialPort.Open() can open, in the
\* order Glob lists them; the tracker is plugged into the second.
PortCandidates == <<"other", TrackerPort, "spare">>

\* mSerialPort.SetPortName(name) and mSerialPort.Open().
Open(s, name) ==
    IF \E i \in 1..Len(PortCandidates) : PortCandidates[i] = name
    THEN Logged([s EXCEPT !.mSerialPort.name = name, !.mSerialPort.opened = TRUE],
                "open", <<name>>)
    ELSE [s EXCEPT !.mSerialPort.name = name]

RESET == <<"R", "E", "S", "E", "T">>

\* The serial break of ResetSerialPort on the configured port: the states
\* with what the tracker puts on the line.
Break(s) ==
    IF s.mSerialPort.opened /\ s.mSerialPort.name = TrackerPort
    THEN {[s EXCEPT !.device = d.device,
                    !.rx = [bytes |-> s.rx.bytes \o d.bytes,
                            stale |-> Len(s.rx.bytes), late |-> d.late]] :
            d \in Faulty([s.device EXCEPT
                             !.faults = IF s.device.noise \in {"session", "always"} THEN @
                                        ELSE 0],
                         {[device |-> DeviceReset(s.device), bytes |-> Frame(RESET)]})}
    ELSE {s}

\* [s, ok].  The history gets the read timeout at the break and the one the
\* call returns with, in decimal digits.
ResetSerialPort(s) ==
    UNION {{[s |-> Logged(restored, "reset", DecOf(restored.mReadTimeout)), ok |-> r.ok] :
              restored \in {[r.s EXCEPT !.mReadTimeout = s.mReadTimeout]}} :
        r \in UNION {ResponseReadExpected([t EXCEPT !.mReadTimeout = 5], RESET) :
                        t \in Break(Logged([s EXCEPT !.mSerialPort.baud = 9600],
                                           "break", DecOf(s.mReadTimeout)))}}

\* SetSerialPortSettings(baudRate, CharacterSize8, ParityCheckingNone,
\* StopBitsOne, FlowControlNone): [s, ok]
SetSerialPortSettings(s, baudRate) ==
    UNION {IF ~t.ok THEN {t}
           ELSE {[s |-> IF r.ok THEN [r.s EXCEPT !.mSerialPort.baud = baudRate] ELSE r.s,
                  ok |-> r.ok] : r \in ResponseReadExpected(t.s, OKAY)} :
              t \in UNION {Transmit(s, line) :
                              line \in {CommandSend(
                                           CommandAppend(
                                               CommandAppend(
                                                   CommandInitialize(CurrentLine(s)),
                                                   <<"C", "O", "M", "M", " ">>),
                                               <<IF baudRate = 9600 THEN "0" ELSE "5",
                                                 "0", "0", "0", "0">>))}}}


(***************************************************************************)
(* The tool registry and the port handles                                  *)
(***************************************************************************)
\* The order of the keys of mTools: that of std::string.  A byte read from
\* an uninitialized array can be any; names that hold one are kept after the
\* names they are compared with.
RECURSIVE NameLess(_, _)
NameLess(a, b) ==
    IF b = <<>> THEN FALSE
    ELSE IF a = <<>> THEN TRUE
    ELSE IF Head(a) = Head(b) THEN NameLess(Tail(a), Tail(b))
    ELSE IF Head(a) = IndeterminateChar THEN FALSE
    ELSE IF Head(b) = IndeterminateChar THEN TRUE
    ELSE Ord[Head(a)] < Ord[Head(b)]

\* mTools.GetNames(): the keys in the order of the map.
RECURSIVE GetNames(_)
GetNames(names) ==
    IF names = {} THEN <<>>
    ELSE The({<<first>> \o GetNames(names \ {first}) :
                 first \in {n \in names : \A m \in names \ {n} : NameLess(n, m)}})

\* A null Tool pointer.
NullTool == <<NUL>>

\* CheckTool(serialNumber): the name of the tool with that serial number.
CheckTool(s, serialNumber) ==
    LET found == {name \in DOMAIN s.mTools : s.mTools[name].SerialNumber = serialNumber}
    IN  IF found = {} THEN NullTool ELSE CHOOSE name \in found : TRUE

\* AddTool with a tool of a name the registry holds put in place of it.
AddTool_Replace(s, name, serialNumber, toolDefinitionFile) ==
    LET tool == CheckTool(s, serialNumber)
        added == (name :> NewTool(name, serialNumber, toolDefinitionFile)) @@ s.mTools
    IN  IF tool # NullTool THEN [s |-> s, tool |-> tool]
        ELSE [s |-> Logged([s EXCEPT !.mTools = added,
                                     !.mToolNames = GetNames(DOMAIN added)],
                           "event", <<"UpdatedTools">>),
              tool |-> name]

\* AddTool(name, serialNumber, toolDefinitionFile): [s, tool]
AddTool(s, name, serialNumber, toolDefinitionFile) ==
    LET tool == CheckTool(s, serialNumber)
        added == (name :> NewTool(name, serialNumber, toolDefinitionFile)) @@ s.mTools
    IN  IF tool # NullTool THEN [s |-> s, tool |-> tool]
        ELSE IF name \in DOMAIN s.mTools THEN [s |-> s, tool |-> NullTool]
        ELSE [s |-> Logged([s EXCEPT !.mTools = added,
                                     !.mToolNames = GetNames(DOMAIN added)],
                           "event", <<"UpdatedTools">>),
              tool |-> name]

\* The reply to PHSR in the buffer, parsed into the vector portHandles: the
\* count keeps its value when its sscanf fails, and resize keeps the handles
\* the vector already held.
ParsedHandles(buf, numPortHandles, portHandles) ==
    LET count == Scan(buf, 0, 2, 16)
        n == IF count.ok THEN count.val ELSE numPortHandles
    IN  [i \in 1..n |->
            ScanChars(CString(buf, 0), 2 + 5 * (i - 1), 2,
                      IF i <= Len(portHandles) THEN portHandles[i]
                      ELSE <<IndeterminateChar, IndeterminateChar>>)]

\* for each command: CommandSend(command); ResponseRead("OKAY")
RECURSIVE SendEach(_, _)
SendEach(s, commands) ==
    IF commands = <<>> THEN {s}
    ELSE UNION {SendEach(r.s, Tail(commands)) :
                   r \in ExchangeExpected(s, Head(commands), OKAY)}

\* The commands of a loop over the port handles: verb and handle.
HandleCommands(verb, portHandles) ==
    [i \in 1..Len(portHandles) |-> verb \o StrNCpy(portHandles[i], 0, 2)]

PortHandlesInitialize(s) ==
    UNION {UNION {UNION {UNION {UNION {UNION {
        SendEach(q.s, inits) :
            inits \in {HandleCommands(<<"P", "I", "N", "I", "T", " ">>,
                                      ParsedHandles(q.s.mSerialBuffer, Len(portHandles),
                                                    portHandles))}} :
            q \in Exchange(t, <<"P", "H", "S", "R", " ", "0", "2">>)} :
            t \in SendEach(r.s, frees)} :
            frees \in {HandleCommands(<<"P", "H", "F", " ">>, portHandles)}} :
            portHandles \in {ParsedHandles(r.s.mSerialBuffer, 0, <<>>)}} :
            r \in Exchange(s, <<"P", "H", "S", "R", " ", "0", "1">>)}

\* serialNumber[7] += 1
NextChar(c) ==
    IF c \in DOMAIN Ord /\ Ord[c] >= 32 /\ Ord[c] < 126 THEN Printable[Ord[c] - 30]
    ELSE IndeterminateChar

RECURSIVE QueryEach(_, _, _, _)
\* The second for loop of PortHandlesQuery from handle i on; locals:
\* [mainType, serialNumber, channel].  The loop ends in [s, again]: again
\* when it met a serial number of all zeros, where the code initializes the
\* port handles, queries them afresh and returns.
QueryEach(s, portHandles, i, locals) ==
    LET \* the first sscanf of the reply, and the second channel's serial number
        Scanned(reply) ==
            [mainType |-> ScanChars(reply, 0, 2, locals.mainType),
             serialNumber |-> ScanChars(reply, 23, 8, locals.serialNumber),
             channel |-> ScanChars(reply, 45, 2, locals.channel)]
        Bumped(l) ==
            IF l.channel = <<"0", "1">> THEN [l EXCEPT !.serialNumber[8] = NextChar(@)]
            ELSE l
        \* the second sscanf: it stops at %*1X on a byte that is no hex digit
        Field(reply, off, width, dst) ==
            IF HexValue(At(reply, 2)) >= 0 /\ HexValue(At(reply, 3)) >= 0
            THEN ScanChars(reply, off, width, dst)
            ELSE dst
        Updated(tool, reply, handle) ==
            [tool EXCEPT
                !.MainType = ScanChars(reply, 0, 2, @),
                !.ManufacturerID = Field(reply, 8, 12, @),
                !.ToolRevision = Field(reply, 20, 3, @),
                !.PartNumber = Field(reply, 33, 20, @),
                !.PortHandle = [k \in 1..2 |-> At(handle, k - 1)]]
        Associated(added, reply, handle) ==
            [added.s EXCEPT
                !.mTools[added.tool] = Updated(@, reply, handle),
                !.mPortToTool =
                    IF handle \in DOMAIN @ THEN @ ELSE (handle :> added.tool) @@ @]
        Added(added, reply, handle, now) ==
            IF added.tool = NullTool
            THEN {[s |-> [added.s EXCEPT !.pc = "crashed"], again |-> FALSE]}
            ELSE UNION {QueryEach(t, portHandles, i + 1, now) :
                           t \in {Associated(added, reply, handle)}}
        Named(r, reply, handle, now) ==
            IF now.serialNumber = ZeroSerial
            THEN {[s |-> r.s, again |-> TRUE]}
            ELSE UNION {Added(added, reply, handle, now) :
                           added \in {AddTool(r.s,
                                              StrNCpy(now.mainType, 0, 2) \o <<"-">>
                                              \o StrNCpy(now.serialNumber, 0, 8),
                                              StrNCpy(now.serialNumber, 0, 8), <<>>)}}
        Queried(r, handle) ==
            UNION {UNION {Named(r, reply, handle, now) :
                             now \in {Bumped(Scanned(reply))}} :
                      reply \in {CString(r.s.mSerialBuffer, 0)}}
        Asked(handle) ==
            UNION {Queried(r, handle) :
                      r \in Exchange(s, PHINF \o handle \o <<"0", "0", "2", "1">>)}
    IN  IF i > Len(portHandles) THEN {[s |-> s, again |-> FALSE]}
        ELSE UNION {Asked(handle) : handle \in {StrNCpy(portHandles[i], 0, 2)}}

RECURSIVE PortHandlesQuery(_)
PortHandlesQuery(s) ==
    UNION {UNION {UNION {
        IF q.again
        THEN UNION {PortHandlesQuery(t) : t \in PortHandlesInitialize(q.s)}
        ELSE {q.s} :
            q \in QueryEach([r.s EXCEPT !.mPortToTool = <<>>], portHandles, 1,
                            [mainType |-> [i \in 1..2 |-> IndeterminateChar],
                             serialNumber |-> [i \in 1..8 |-> IndeterminateChar],
                             channel |-> [i \in 1..2 |-> IndeterminateChar]])} :
            portHandles \in {ParsedHandles(r.s.mSerialBuffer, 0, <<>>)}} :
            r \in Exchange(s, <<"P", "H", "S", "R", " ", "0", "0">>)}

\* The mode PortHandlesEnable gives a tool of a main type.
EnableMode(mainType) ==
    IF mainType = <<"0", "1">> THEN "S"
    ELSE IF mainType \in {<<"0", "2">>, <<"0", "4">>, <<"0", "A">>} THEN "D"
    ELSE IF mainType = <<"0", "3">> THEN "B"
    ELSE "none"

\* The for loop of PortHandlesEnable from handle i on.
RECURSIVE EnableEach(_, _, _)
EnableEach(s, portHandles, i) ==
    IF i > Len(portHandles) THEN {s}
    ELSE UNION {UNION {
        IF handle \notin DOMAIN s.mPortToTool
           \/ EnableMode(s.mTools[s.mPortToTool[handle]].MainType) = "none"
        THEN {[s EXCEPT !.mSerialBuffer = begun.buf, !.mSerialBufferPointer = begun.ptr]}
        ELSE UNION {UNION {EnableEach(r.s, portHandles, i + 1) :
                              r \in ResponseReadExpected(t.s, OKAY)} :
                       t \in Transmit(s, CommandSend(CommandAppend(
                               begun,
                               <<EnableMode(s.mTools[s.mPortToTool[handle]].MainType)>>)))} :
            begun \in {CommandAppend(CommandAppend(CommandInitialize(CurrentLine(s)),
                                                   <<"P", "E", "N", "A", " ">>),
                                     handle)}} :
            handle \in {StrNCpy(portHandles[i], 0, 2)}}

PortHandlesEnable(s) ==
    UNION {UNION {EnableEach(r.s, portHandles, 1) :
                     portHandles \in {ParsedHandles(r.s.mSerialBuffer, 0, <<>>)}} :
              r \in Exchange(s, <<"P", "H", "S", "R", " ", "0", "3">>)}

\* The sizes of the other tool definition files of the machine: around one
\* chunk of 64 bytes, around two, and around the limit.
FileSizes == {1, 63, 64, 128, 959, 960, 961}

\* The path of the file of a size: the size and .rom
RomPath(size) == DecOf(size) \o <<".", "r", "o", "m">>

\* The tool definition files of the machine: path -> bytes, none of them
\* zero.  probe.rom has 65 bytes.
ToolDefinitionFiles ==
    [path \in {<<"p", "r", "o", "b", "e", ".", "r", "o", "m">>}
               \cup {RomPath(size) : size \in FileSizes} |->
        [i \in 1..(IF \E size \in FileSizes : path = RomPath(size)
                   THEN CHOOSE size \in FileSizes : path = RomPath(size)
                   ELSE 65) |-> ((i - 1) % 255) + 1]]

\* The for loop of LoadToolDefinitionFile from chunk i on; input is the
\* char input[65] the file is read into, 64 bytes at a time.
RECURSIVE LoadEach(_, _, _, _, _, _)
LoadEach(s, portHandle, file, numChunks, i, input) ==
    IF i >= numChunks THEN {s}
    ELSE UNION {UNION {LoadEach(r.s, portHandle, file, numChunks, i + 1, read) :
                          r \in UNION {ExchangeExpected(s, command, OKAY) :
                                          command \in {<<"P", "V", "W", "R", " ">>
                                                       \o portHandle \o HexField(i * 64, 4)
                                                       \o Flatten([j \in 1..64 |->
                                                              HexField(read[j], 2)])}}} :
                   read \in {[j \in 1..64 |->
                                 IF 64 * i + j <= Len(file) THEN file[64 * i + j]
                                 ELSE input[j]]}}

\* numChunks of LoadToolDefinitionFile for a file of fileSize bytes
NumChunks(fileSize) ==
    ((fileSize * 2) + (128 - ((fileSize * 2) % 128))) \div 128

LoadToolDefinitionFile(s, portHandle, filePath) ==
    IF filePath \notin DOMAIN ToolDefinitionFiles THEN {s}
    ELSE IF Len(ToolDefinitionFiles[filePath]) > 960 THEN {s}
    ELSE UNION {LoadEach(s, StrNCpy(portHandle, 0, 2), file, NumChunks(Len(file)), 0,
                         [j \in 1..64 |-> 0]) :
                   file \in {ToolDefinitionFiles[filePath]}}

\* The for loop of PortHandlesPassiveTools over the tools not yet visited.
RECURSIVE PassiveEach(_, _, _)
PassiveEach(s, names, portHandle) ==
    IF names = {} THEN {s}
    ELSE UNION {
        IF s.mTools[name].Definition = <<>>
        THEN PassiveEach(s, names \ {name}, portHandle)
        ELSE UNION {
            IF ~r.ok THEN PassiveEach(r.s, names \ {name}, portHandle)
            ELSE UNION {UNION {
                PassiveEach([t EXCEPT !.mPortToTool =
                                IF StrNCpy(handle, 0, 2) \in DOMAIN @ THEN @
                                ELSE (StrNCpy(handle, 0, 2) :> name) @@ @],
                            names \ {name}, handle) :
                    t \in LoadToolDefinitionFile(r.s, handle, s.mTools[name].Definition)} :
                    handle \in {ScanChars(CString(r.s.mSerialBuffer, 0), 0, 2,
                                          portHandle)}} :
                r \in Exchange(s, <<"P", "H", "R", "Q", " ", "*", "*", "*", "*", "*",
                                    "*", "*", "*", "*", "1", "*", "*", "*", "*">>)} :
            name \in {CHOOSE n \in names : \A m \in names \ {n} : NameLess(n, m)}}

PortHandlesPassiveTools(s) ==
    UNION {PassiveEach(s, DOMAIN s.mTools, portHandle) :
              portHandle \in IndeterminateHandles(s)}

\* Discover with a candidate that did not answer the break left open.
RECURSIVE Discover_KeepOpen(_, _)
Discover_KeepOpen(s, i) ==
    IF i > Len(PortCandidates) THEN {s}
    ELSE UNION {IF ~opened.mSerialPort.opened THEN Discover_KeepOpen(opened, i + 1)
                ELSE UNION {IF r.ok
                            THEN {[r.s EXCEPT !.mSerialPortName = r.s.mSerialPort.name]}
                            ELSE Discover_KeepOpen(r.s, i + 1) :
                               r \in ResetSerialPort(opened)} :
                   opened \in {Open(s, PortCandidates[i])}}

\* A loop that goes on to the next candidate after one has answered.
RECURSIVE Discover_TryAll(_, _)
Discover_TryAll(s, i) ==
    IF i > Len(PortCandidates) THEN {s}
    ELSE UNION {IF ~opened.mSerialPort.opened THEN Discover_TryAll(opened, i + 1)
                ELSE UNION {IF r.ok
                            THEN Discover_TryAll(
                                     [r.s EXCEPT !.mSerialPortName = r.s.mSerialPort.name],
                                     i + 1)
                            ELSE Discover_TryAll(Close(r.s), i + 1) :
                               r \in ResetSerialPort(opened)} :
                   opened \in {Open(s, PortCandidates[i])}}

\* The for loop of Connect over the candidate ports from candidate i on:
\* the states it ends in.
RECURSIVE Discover(_, _)
Discover(s, i) ==
    IF i > Len(PortCandidates) THEN {s}
    ELSE UNION {IF ~opened.mSerialPort.opened THEN Discover(opened, i + 1)
                ELSE UNION {IF r.ok
                            THEN {[r.s EXCEPT !.mSerialPortName = r.s.mSerialPort.name]}
                            ELSE Discover(Close(r.s), i + 1) :
                               r \in ResetSerialPort(opened)} :
                   opened \in {Open(s, PortCandidates[i])}}

\* Connect from the four port handle steps on.
ConnectTools(s) ==
    UNION {UNION {UNION {IF x.pc = "crashed" THEN {x} ELSE PortHandlesEnable(x) :
                            x \in PortHandlesQuery(w)} :
                     w \in PortHandlesPassiveTools(v)} :
              v \in PortHandlesInitialize(s)}

\* Connect from the Connected event on.
ConnectVersion(s, previousTimeout) ==
    UNION {UNION {UNION {UNION {
        IF q.ok THEN ConnectTools([q.s EXCEPT !.mReadTimeout = previousTimeout])
        ELSE {[q.s EXCEPT !.mReadTimeout = previousTimeout]} :
            q \in ExchangeExpected(x.s, <<"V", "E", "R", " ", "5">>, <<"0", "2", "4">>)} :
            x \in Exchange(w.s, <<"V", "E", "R", " ", "4">>)} :
            w \in Exchange(v.s, <<"V", "E", "R", " ", "3">>)} :
            v \in Exchange([s EXCEPT !.Events.Connected = <<s.mSerialPortName>>],
                           <<"V", "E", "R", " ", "0">>)}

\* Connect once the port is opened and reset.
ConnectFound(s, previousTimeout) ==
    UNION {UNION {IF r.ok THEN ConnectVersion(r.s, previousTimeout)
                  ELSE {[Close(r.s) EXCEPT !.mReadTimeout = previousTimeout]} :
                     r \in ExchangeExpected(u.s, <<"I", "N", "I", "T", " ">>, OKAY)} :
              u \in SetSerialPortSettings([s EXCEPT !.mReadTimeout = 5], 115200)}

\* Connect once the port is closed and named.
ConnectNamed(s) ==
    IF s.mSerialPortName # ""
    THEN UNION {IF ~opened.mSerialPort.opened THEN {opened}
                ELSE UNION {IF r.ok THEN ConnectFound(r.s, s.mReadTimeout)
                            ELSE {Close(r.s)} :
                               r \in ResetSerialPort(opened)} :
                   opened \in {Open(s, s.mSerialPortName)}}
    ELSE UNION {ConnectFound(t, s.mReadTimeout) : t \in Discover(s, 1)}

Connect(s, serialPortName) ==
    UNION {ConnectNamed(IF serialPortName # ""
                        THEN [closed EXCEPT !.mSerialPortName = serialPortName]
                        ELSE closed) :
              closed \in {IF s.mSerialPort.opened THEN Close(s) ELSE s}}


(***************************************************************************)
(* The state after construction                                            *)
(***************************************************************************)
NoRead ==
    [done |-> FALSE, received |-> <<>>, elapsed |-> "before", ok |-> FALSE,
     stale |-> 0, oob |-> FALSE]

\* What is known of a period in which Track has not run.
NoTrack ==
    [ran |-> FALSE, ok |-> FALSE, returned |-> FALSE, numPortHandles |-> 0,
     numMarkers |-> 0, outOfBounds |-> FALSE, sent |-> 0]

NoTick ==
    [log |-> <<>>, queued |-> <<>>, executed |-> <<>>, track |-> NoTrack,
     before |-> [mTools |-> <<>>, mStrayMarkers |-> Zeros, mIsTracking |-> FALSE]]

\* A tracker just switched on, with nothing on the line.
SwitchedOn ==
    [tracking |-> FALSE, baud |-> 9600, frame |-> 0, sent |-> 0,
     repertoire |-> "basic", faults |-> 0, noise |-> "tracking",
     ports |-> PortsSwitchedOn, kit |-> "probes", zeros |-> 0,
     firmware |-> <<"0", "2", "4">>, busy |-> "idle"]

NoBytes == [bytes |-> <<>>, stale |-> 0, late |-> FALSE]

\* mtsNDISerial::Init, on the members the constructors leave empty, with a
\* tracker just switched on at the other end of the line.
Constructed ==
    [mSerialBuffer |-> <<>>, mSerialBufferPointer |-> 0, mReadTimeout |-> 2,
     mIsTracking |-> FALSE, mTrackStrayMarkers |-> TRUE, mStrayMarkers |-> Zeros,
     mTools |-> <<>>, mToolNames |-> <<>>, mPortToTool |-> <<>>,
     mSerialPortName |-> "",
     mSerialPort |-> [opened |-> FALSE, name |-> "", baud |-> 9600],
     Events |-> [Connected |-> <<>>, Tracking |-> <<>>], pc |-> "idle",
     rx |-> NoBytes, device |-> SwitchedOn, tick |-> NoTick, lastRead |-> NoRead]

\* The variables the periodic task owns, as the record the handlers work on.
State ==
    [mSerialBuffer |-> mSerialBuffer, mSerialBufferPointer |-> mSerialBufferPointer,
     mReadTimeout |-> mReadTimeout, mIsTracking |-> mIsTracking,
     mTrackStrayMarkers |-> mTrackStrayMarkers, mStrayMarkers |-> mStrayMarkers,
     mTools |-> mTools, mToolNames |-> mToolNames, mPortToTool |-> mPortToTool,
     mSerialPortName |-> mSerialPortName, mSerialPort |-> mSerialPort,
     Events |-> Events, pc |-> pc, rx |-> rx, device |-> device, tick |-> tick,
     lastRead |-> lastRead]

\* The task is in state t.
Holds(t) ==
    /\ mSerialBuffer = t.mSerialBuffer
    /\ mSerialBufferPointer = t.mSerialBufferPointer
    /\ mReadTimeout = t.mReadTimeout
    /\ mIsTracking = t.mIsTracking
    /\ mTrackStrayMarkers = t.mTrackStrayMarkers
    /\ mStrayMarkers = t.mStrayMarkers
    /\ mTools = t.mTools
    /\ mToolNames = t.mToolNames
    /\ mPortToTool = t.mPortToTool
    /\ mSerialPortName = t.mSerialPortName
    /\ mSerialPort = t.mSerialPort
    /\ Events = t.Events
    /\ pc = t.pc
    /\ rx = t.rx
    /\ device = t.device
    /\ tick = t.tick
    /\ lastRead = t.lastRead

\* The handler returned in state t.
Becomes(t) ==
    /\ mSerialBuffer' = t.mSerialBuffer
    /\ mSerialBufferPointer' = t.mSerialBufferPointer
    /\ mReadTimeout' = t.mReadTimeout
    /\ mIsTracking' = t.mIsTracking
    /\ mTrackStrayMarkers' = t.mTrackStrayMarkers
    /\ mStrayMarkers' = t.mStrayMarkers
    /\ mTools' = t.mTools
    /\ mToolNames' = t.mToolNames
    /\ mPortToTool' = t.mPortToTool
    /\ mSerialPortName' = t.mSerialPortName
    /\ mSerialPort' = t.mSerialPort
    /\ Events' = t.Events
    /\ pc' = t.pc
    /\ rx' = t.rx
    /\ device' = t.device
    /\ tick' = t.tick
    /\ lastRead' = t.lastRead

(***************************************************************************)
(* The periodic task and its consumers                                     *)
(***************************************************************************)
\* How many commands wait in the mailbox at most, how many are ever queued,
\* and how many periods the task runs.
MaxMailbox == 2
MaxSubmitted == 3
MaxTicks == 2

\* A queued command: the name it was registered under in Init, its argument
\* (port for Connect, track for ToggleTracking, number for Beep), and its
\* place in the order of submission.
Command(name, port, track) ==
    [name |-> name, port |-> port, track |-> track, number |-> 0, ticket |-> 0]

Commands ==
    {Command("Connect", "", FALSE), Command("Disconnect", "", FALSE),
     Command("ToggleTracking", "", TRUE), Command("ToggleTracking", "", FALSE),
     Command("ReportStrayMarkers", "", FALSE)}

\* The command object calls the method it was registered with.
Execute(s, c) ==
    CASE c.name = "Connect" -> Connect(s, c.port)
      [] c.name = "Disconnect" -> Disconnect(s)
      [] c.name = "ToggleTracking" -> ToggleTracking(s, c.track)
      [] c.name = "ReportStrayMarkers" -> ReportStrayMarkers(s)
      [] c.name = "Beep" -> Beep(s, c.number)
      [] c.name = "PortHandlesInitialize" -> PortHandlesInitialize(s)
      [] c.name = "PortHandlesQuery" -> PortHandlesQuery(s)
      [] c.name = "PortHandlesEnable" -> PortHandlesEnable(s)

\* ProcessQueuedCommands(): the queued commands are executed oldest first
\* until the mailbox is empty.
RECURSIVE ProcessQueuedCommands(_, _)
ProcessQueuedCommands(s, queue) ==
    IF queue = <<>> \/ s.pc # "idle" THEN {s}
    ELSE UNION {ProcessQueuedCommands(t, Tail(queue)) :
                   t \in Execute([Logged(s, "exec",
                                         IF Head(queue).name = "Beep"
                                         THEN <<"Beep", Head(queue).number>>
                                         ELSE <<Head(queue).name>>) EXCEPT
                                     !.tick.executed = Append(@, Head(queue).ticket)],
                                 Head(queue))}

\* What Track finds when it is called.
Snapshot(s) ==
    [mTools |-> s.mTools, mStrayMarkers |-> s.mStrayMarkers,
     mIsTracking |-> s.mIsTracking]

\* Run with Track called whether or not the component is tracking.
Run_Regardless(s, queue) ==
    UNION {IF t.pc # "idle" THEN {t}
           ELSE Track([t EXCEPT !.tick.before = Snapshot(t)]) :
              t \in ProcessQueuedCommands(s, queue)}

\* mtsNDISerial::Run, with the commands the mailbox holds.
Run(s, queue) ==
    UNION {IF t.pc # "idle" THEN {t}
           ELSE IF t.mIsTracking THEN Track([t EXCEPT !.tick.before = Snapshot(t)])
           ELSE {[t EXCEPT !.tick.before = Snapshot(t)]} :
              t \in ProcessQueuedCommands(s, queue)}

\* A consumer queues a command.
Submit(c) ==
    /\ pc = "idle"
    /\ Len(mailbox) < MaxMailbox
    /\ submitted < MaxSubmitted
    /\ mailbox' = Append(mailbox, [c EXCEPT !.ticket = submitted + 1])
    /\ submitted' = submitted + 1
    /\ UNCHANGED <<mSerialBuffer, mSerialBufferPointer, mReadTimeout, mIsTracking,
                   mTrackStrayMarkers, mStrayMarkers, mTools, mToolNames, mPortToTool,
                   mSerialPortName, mSerialPort, Events, pc, rx, device, tick,
                   lastRead, ticks>>

SubmitAny == \E c \in Commands : Submit(c)

\* The tickets of the commands a mailbox holds, oldest first.
Tickets(queue) == [i \in 1..Len(queue) |-> queue[i].ticket]

\* One period of the task.
RunTick ==
    /\ pc = "idle"
    /\ ticks < MaxTicks
    /\ \E t \in Run([State EXCEPT !.tick = [NoTick EXCEPT !.queued = Tickets(mailbox)]],
                    mailbox) : Becomes(t)
    /\ mailbox' = <<>>
    /\ ticks' = ticks + 1
    /\ UNCHANGED submitted

\* The owner of the component calls ToggleStrayMarkers between two periods.
CallToggleStrayMarkers ==
    /\ pc = "idle"
    /\ \E stray \in BOOLEAN :
          /\ stray # mTrackStrayMarkers
          /\ Becomes(ToggleStrayMarkers(State, stray))
    /\ UNCHANGED <<mailbox, submitted, ticks>>

\* The component as constructed, on a line that may still fail MaxFaults
\* times.
Init ==
    /\ Holds([Constructed EXCEPT !.device.faults = MaxFaults])
    /\ mailbox = <<>>
    /\ submitted = 0
    /\ ticks = 0

Next == SubmitAny \/ RunTick \/ CallToggleStrayMarkers

Spec == Init /\ [][Next]_vars


(***************************************************************************)
(* SpecTrack: the periods of a task that is tracking                       *)
(*                                                                         *)
(* The component was configured with one tool, connected and told to       *)
(* track, all on a line that did not fail; from then on the tracker sends  *)
(* any of TXReplies and the line may fail.  The frame counter of the       *)
(* tracker has run for a while: it starts MaxTicks short of MaxFrame, so   *)
(* that it counts up through the whole run.                                *)
(***************************************************************************)
\* The tool of the configuration file: the probe plugged into the first
\* port.  Its tooltip translation is read by the Configure of
\* src/unnamed/part_001; mtsNDISerial.cpp has that code compiled out, so
\* that there the offset stays that of Tool::Tool, zero.
ConfiguredTool(tooltip) ==
    [name |-> <<"P", "r", "o", "b", "e">>, serialNumber |-> DeviceTools[1].serial,
     definition |-> <<>>, tooltip |-> tooltip]

\* Configure, for a file that names one tool.
Configure(s, tool) ==
    The({IF added.tool = NullTool THEN added.s
         ELSE [added.s EXCEPT !.mTools[added.tool].TooltipOffset = tool.tooltip] :
            added \in {AddTool(s, tool.name, tool.serialNumber, tool.definition)}})

\* The tooltip of the probe: 5 mm along z.
Tooltip == <<0, 0, 500>>

InitTrack ==
    /\ \E c \in Connect(Configure(Constructed, ConfiguredTool(Tooltip)), "") :
          \E t \in ToggleTracking(c, TRUE) :
             Holds([t EXCEPT !.device.repertoire = "all",
                             !.device.faults = MaxFaults,
                             !.device.frame = MaxFrame - MaxTicks,
                             !.tick = NoTick])
    /\ mailbox = <<>>
    /\ submitted = 0
    /\ ticks = 0

NextTrack == RunTick \/ CallToggleStrayMarkers

SpecTrack == InitTrack /\ [][NextTrack]_vars

(***************************************************************************)
(* SpecRead: ResponseRead on the byte sequences a line can deliver         *)
(***************************************************************************)
MaxPayload == 3

ReadAlphabet == {"O", "K", NUL}

RECURSIVE SeqsUpTo(_, _)
SeqsUpTo(S, n) ==
    IF n = 0 THEN {<<>>}
    ELSE LET shorter == SeqsUpTo(S, n - 1)
         IN  shorter \cup {Append(q, c) : q \in shorter, c \in S}

\* The CRC of every byte of a sequence, zero bytes included.
RECURSIVE CRCOfAllBytes(_, _)
CRCOfAllBytes(bytes, crc) ==
    IF bytes = <<>> THEN crc
    ELSE CRCOfAllBytes(Tail(bytes), CRCStep(crc, Ord[Head(bytes)]))

\* What the reader is given for one payload: the payload followed by a CRC
\* field (that of the payload as a C string, that of all its bytes, or a
\* wrong one) and a CR.
ReadInputsOf(payload) ==
    {payload \o crc \o <<CR>> :
        crc \in {Format04X(ComputeCRC(payload)),
                 Format04X(CRCOfAllBytes(payload, 0)),
                 <<"0", "0", "0", "0">>}}

\* All of them, the sequences too short to hold a CRC field, and the reply
\* OKAY of the tracker.
ReadInputs ==
    UNION {ReadInputsOf(payload) : payload \in SeqsUpTo(ReadAlphabet, MaxPayload)}
    \cup {<<>>, <<CR>>, <<"0", CR>>}
    \cup {Frame(OKAY)}

InitRead ==
    /\ \E command \in {<<>>, TX1001}, received \in ReadInputs :
          LET sent == CommandSendString([buf |-> <<>>, ptr |-> 0], command)
          IN  /\ mSerialBuffer = IF command = <<>> THEN <<>> ELSE sent.buf
              /\ mSerialBufferPointer = IF command = <<>> THEN 0 ELSE sent.ptr
              /\ rx = [bytes |-> received, stale |-> 0, late |-> FALSE]
    /\ mReadTimeout = 2
    /\ mIsTracking = FALSE
    /\ mTrackStrayMarkers = TRUE
    /\ mStrayMarkers = Zeros
    /\ mTools = <<>>
    /\ mToolNames = <<>>
    /\ mPortToTool = <<>>
    /\ mSerialPortName = TrackerPort
    /\ mSerialPort = [opened |-> TRUE, name |-> TrackerPort, baud |-> 9600]
    /\ Events = [Connected |-> <<>>, Tracking |-> <<>>]
    /\ mailbox = <<>>
    /\ pc = "idle"
    /\ tick = NoTick
    /\ lastRead = NoRead
    /\ submitted = 0
    /\ ticks = 0
    /\ device = SwitchedOn

\* One call of ResponseRead(void): the loop reads all that waits in the port.
ReadOnce ==
    /\ ~lastRead.done
    /\ \E elapsed \in Elapsed :
          /\ LoopEnds(rx.bytes, elapsed)
          /\ \E r \in ResponseRead(mSerialBuffer, rx.bytes, elapsed) :
                /\ mSerialBuffer' = r.buf
                /\ mSerialBufferPointer' = r.ptr
                /\ lastRead' = [done |-> TRUE, received |-> rx.bytes,
                                elapsed |-> elapsed, ok |-> r.ok, stale |-> 0,
                                oob |-> r.oob]
    /\ rx' = [rx EXCEPT !.bytes = <<>>]
    /\ UNCHANGED <<mReadTimeout, mIsTracking, mTrackStrayMarkers, mStrayMarkers,
                   mTools, mToolNames, mPortToTool, mSerialPortName, mSerialPort,
                   Events,
                   mailbox, pc, device, tick, submitted, ticks>>

NextRead == ReadOnce

SpecRead == InitRead /\ [][NextRead]_vars

(***************************************************************************)
(* Claims                                                                  *)
(***************************************************************************)
\* The last ResponseRead ended within the timeout on a sequence that ends in
\* four CRC characters and a CR.
ReadInTime ==
    /\ lastRead.done
    /\ lastRead.elapsed # "after"
    /\ Len(lastRead.received) >= CRC_SIZE + 1
    /\ lastRead.received[Len(lastRead.received)] = CR

ReadPayload == SubSeq(lastRead.received, 1, Len(lastRead.received) - (CRC_SIZE + 1))

ReadCRC ==
    SubSeq(lastRead.received, Len(lastRead.received) - CRC_SIZE,
           Len(lastRead.received) - 1)

\* C1, as stated: ResponseRead succeeds if and only if the four received CRC
\* characters are the upper-case hex CRC-16 of all the payload bytes, zero
\* bytes included, and on success the buffer holds exactly the payload.
C1_Original ==
    ReadInTime =>
        /\ lastRead.ok <=> (ReadCRC = Format04X(CRCOfAllBytes(ReadPayload, 0)))
        /\ lastRead.ok => /\ CString(mSerialBuffer, 0) = ReadPayload
                          /\ mSerialBufferPointer = Len(ReadPayload) + 1

\* C1, amended: ResponseRead succeeds if and only if the four received CRC
\* characters are the upper-case hex CRC-16 of the payload bytes that precede
\* the payload's first zero byte (all of them when it has none); on success
\* the buffer starts with the payload followed by a zero byte, so that read
\* as a C string it is the payload up to its first zero byte, and the cursor
\* is just past that zero byte.
C1_Amended ==
    ReadInTime =>
        /\ lastRead.ok <=> (ReadCRC = Format04X(ComputeCRC(ReadPayload)))
        /\ lastRead.ok =>
              /\ SubSeq(mSerialBuffer, 1, Len(ReadPayload)) = ReadPayload
              /\ At(mSerialBuffer, Len(ReadPayload)) = NUL
              /\ CString(mSerialBuffer, 0) = CString(ReadPayload, 0)
              /\ mSerialBufferPointer = Len(ReadPayload) + 1

\* C1, the case: a payload with a zero byte in it is accepted.
C1_Witness ==
    /\ ReadInTime
    /\ lastRead.ok
    /\ \E i \in 1..Len(ReadPayload) : ReadPayload[i] = NUL
    /\ \E i \in 1..Len(ReadPayload) : ReadPayload[i] # NUL

\* Track ran in the last period and its ResponseRead returned false.
TrackReadFailed == tick.track.ran /\ ~tick.track.ok

\* C2, as stated: when the read of the period's TX reply fails (it timed out
\* or its CRC did not match), Track leaves every tool (both poses, their
\* validity flags, the RMS error, the frame number) and every entry of the
\* stray marker matrix as it found them.
C2_Original ==
    (pc = "idle" /\ TrackReadFailed) =>
        /\ mTools = tick.before.mTools
        /\ mStrayMarkers = tick.before.mStrayMarkers

\* C3, as stated: Track never returns from the middle of a reply it read
\* with rows of some tools applied; when it returns early, the tools are as
\* it found them.
C3_Original ==
    (pc = "idle" /\ tick.track.ran /\ tick.track.ok /\ tick.track.returned) =>
        mTools = tick.before.mTools

\* C4, as stated (its general form): the value of the last Tracking event
\* emitted equals mIsTracking, after any sequence of commands and periods.
C4_Original ==
    (pc = "idle" /\ Events.Tracking # <<>>) => Events.Tracking = <<mIsTracking>>

\* The tracker answered the TX of the last period with a reply that has a
\* numeric row for the port handle.
NumericRowSent(portHandle) ==
    /\ tick.track.ran
    /\ tick.track.sent \in 1..Len(TXReplies)
    /\ \E k \in 1..Len(TXReplies[tick.track.sent].rows) :
          /\ TXReplies[tick.track.sent].rows[k].kind = "numeric"
          /\ TXReplies[tick.track.sent].rows[k].handle = portHandle

\* C5, as stated: after every period the tooltip pose of a tool is valid
\* only if the TX reply of that period had a numeric row for the tool's port
\* handle; any other tool is not valid and its pose is the one it had.
C5_Original ==
    (pc = "idle" /\ ticks > 0) =>
        \A name \in DOMAIN mTools :
            NumericRowSent(mTools[name].PortHandle)
            \/ /\ ~mTools[name].TooltipPosition.Valid
               /\ mTools[name].TooltipPosition.Position
                    = tick.before.mTools[name].TooltipPosition.Position

\* The marker pose and the tooltip pose of a tool agree: both valid or both
\* not, and when valid the same rotation, the tooltip translation being the
\* marker translation plus the rotated tooltip offset.
PosesAgree(tool) ==
    /\ tool.MarkerPosition.Valid = tool.TooltipPosition.Valid
    /\ tool.TooltipPosition.Valid =>
          /\ tool.TooltipPosition.Position.Rotation
               = tool.MarkerPosition.Position.Rotation
          /\ tool.TooltipPosition.Position.Translation
               = VecPlus(tool.MarkerPosition.Position.Translation,
                         Rotate(tool.MarkerPosition.Position.Rotation,
                                tool.TooltipOffset))

\* Track read the reply the tracker sent to the TX of this period, whole and
\* nothing else.
CleanRead ==
    /\ tick.track.ran
    /\ tick.track.ok
    /\ lastRead.stale = 0
    /\ tick.track.sent \in 1..Len(TXReplies)

\* Row k of a reply is one Track reaches at the place the tracker wrote it:
\* the rows before it end with a line feed, and the rows up to it name known
\* port handles and have translation fields of one of the widths.
RowReached(rows, k, digits) ==
    /\ \A j \in 1..k : rows[j].digits \in digits /\ KeyOf(rows[j].handle) \in DOMAIN mPortToTool
    /\ \A j \in 1..(k - 1) : rows[j].lf

\* The poses of the tools whose numeric rows were read are the values on the
\* wire: the translation divided by 100, the quaternion divided by 10000.
WireAgrees(digits) ==
    CleanRead =>
        \A k \in 1..Len(TXReplies[tick.track.sent].rows) :
            (/\ TXReplies[tick.track.sent].rows[k].kind = "numeric"
             /\ RowReached(TXReplies[tick.track.sent].rows, k, digits)) =>
                /\ mTools[mPortToTool[KeyOf(TXReplies[tick.track.sent].rows[k].handle)]]
                      .MarkerPosition.Position.Translation
                     = TXReplies[tick.track.sent].rows[k].t
                /\ mTools[mPortToTool[KeyOf(TXReplies[tick.track.sent].rows[k].handle)]]
                      .MarkerPosition.Position.Rotation
                     = RotationFromRaw(
                          [W |-> TXReplies[tick.track.sent].rows[k].q[1],
                           X |-> TXReplies[tick.track.sent].rows[k].q[2],
                           Y |-> TXReplies[tick.track.sent].rows[k].q[3],
                           Z |-> TXReplies[tick.track.sent].rows[k].q[4]])

\* The row of the example was read: w = +10000, x = y = z = +00000,
\* t = (100.00, 0, 0) mm, its translation fields written with a sign and
\* `digits` digits, for the tool whose tooltip offset is (0, 0, 5) mm.
ExampleRead(digits) ==
    /\ CleanRead
    /\ TXReplies[tick.track.sent].rows[1].kind = "numeric"
    /\ TXReplies[tick.track.sent].rows[1].handle = Handles[1]
    /\ TXReplies[tick.track.sent].rows[1].q = <<10000, 0, 0, 0>>
    /\ TXReplies[tick.track.sent].rows[1].t = <<10000, 0, 0>>
    /\ TXReplies[tick.track.sent].rows[1].digits = digits
    /\ mTools[mPortToTool[Handles[1]]].TooltipOffset = <<0, 0, 500>>

ExampleHolds ==
    mTools[mPortToTool[Handles[1]]].TooltipPosition
        = [Valid |-> TRUE,
           Position |-> [Rotation |-> RotationIdentity,
                         Translation |-> <<10000, 0, 500>>]]

StraysAsked ==
    /\ tick.track.ran
    /\ tick.track.sent \in 1..Len(TXReplies)
    /\ \E k \in 1..Len(tick.log) : tick.log[k] = [op |-> "write", arg |-> TX1001]

ReportedCount == TXReplies[tick.track.sent].strays.count

\* C7, as stated: after every period the first column of row i of the stray
\* marker matrix is 1 if and only if i is less than the count of the last TX
\* reply, the rows from the count on are zero, and no count of the two hex
\* digits makes Track write past the last row.
C7_Original ==
    (ticks > 0 /\ StraysAsked) =>
        /\ ~tick.track.outOfBounds
        /\ \A i \in 0..(StrayRows - 1) :
              /\ (mStrayMarkers[i][1] = 1) <=> (i < ReportedCount)
              /\ i >= ReportedCount => mStrayMarkers[i] = ZeroRow

\* C8, as stated: a response ResponseRead accepts holds no byte the tracker
\* sent in reply to an earlier command, one whose read had timed out.
C8_Original ==
    (lastRead.done /\ lastRead.ok) => lastRead.stale = 0

\* The places of the period's history at which a TX command was written.
TXWrites ==
    {k \in 1..Len(tick.log) :
        tick.log[k].op = "write" /\ StrNCmpEq(tick.log[k].arg, 0, <<"T", "X", " ">>)}

\* How many times ReportStrayMarkers was executed in the period.
ReportsExecuted ==
    Cardinality({k \in 1..Len(tick.log) :
                    tick.log[k] = [op |-> "exec", arg |-> <<"ReportStrayMarkers">>]})

\* No command is written before the read of the reply to the one written
\* before it has returned: in the history every write is followed at once
\* by a read.
NoPipelining ==
    \A k \in 1..Len(tick.log) :
        tick.log[k].op = "write" =>
            k < Len(tick.log) /\ tick.log[k + 1].op = "read"

\* C9, as stated: in a period at most one TX command is written, whatever
\* commands were executed in it, and no command is written before the reply
\* to the one before it was read or its read timed out.
C9_Original ==
    /\ Cardinality(TXWrites) <= 1
    /\ NoPipelining

\* C9, amended: in a period Track writes at most one TX command, and each
\* ReportStrayMarkers executed in it writes one more (TX 1000); no command
\* is written before the reply to the one before it was read or its read
\* timed out.
C9_Amended ==
    /\ Cardinality(TXWrites)
         <= ReportsExecuted + (IF tick.track.ran THEN 1 ELSE 0)
    /\ Cardinality({k \in TXWrites : tick.log[k].arg \in {TX0001, TX1001}})
         <= (IF tick.track.ran THEN 1 ELSE 0)
    /\ Cardinality({k \in TXWrites : tick.log[k].arg = TX1000}) <= ReportsExecuted
    /\ NoPipelining

\* C9, the case: a period in which ReportStrayMarkers was executed and Track
\* ran, two TX commands written.
C9_Witness ==
    /\ pc = "idle"
    /\ ReportsExecuted = 1
    /\ tick.track.ran
    /\ Cardinality(TXWrites) = 2

\* In the history of the period no command is executed after Track began.
CommandsBeforeTrack ==
    \A k \in 1..Len(tick.log) : \A m \in 1..Len(tick.log) :
        (tick.log[k].op = "track" /\ tick.log[m].op = "exec") => m < k

Firmwares == {<<"0", "2", "4">>, <<"0", "2", "3">>}

ConnectCommands ==
    {Command("Connect", "", FALSE), Command("Connect", TrackerPort, FALSE),
     Command("Connect", "none", FALSE), Command("Disconnect", "", FALSE)}

SubmitConnect == \E c \in ConnectCommands : Submit(c)

InitConnect ==
    /\ \E firmware \in Firmwares, faults \in 0..MaxFaults :
          Holds([Constructed EXCEPT !.device.firmware = firmware,
                                    !.device.noise = "session",
                                    !.device.faults = faults])
    /\ mailbox = <<>>
    /\ submitted = 0
    /\ ticks = 0

NextConnect == SubmitConnect \/ RunTick

SpecConnect == InitConnect /\ [][NextConnect]_vars

\* The commands of the port handles.
PortHandleVerbs ==
    {<<"P", "H", "S", "R">>, <<"P", "H", "F", " ">>, <<"P", "I", "N", "I">>,
     <<"P", "H", "R", "Q">>, <<"P", "V", "W", "R">>, <<"P", "H", "I", "N">>,
     <<"P", "E", "N", "A">>}

VER5 == <<"V", "E", "R", " ", "5">>

\* Entry k of the history is the VER 5 of the last Connect of the period,
\* and its reply was not read as 024.
FirmwareRefusedAt(k) ==
    /\ k + 2 <= Len(tick.log)
    /\ tick.log[k] = [op |-> "write", arg |-> VER5]
    /\ tick.log[k + 2] = [op |-> "match", arg |-> <<"failed">>]
    /\ \A m \in k..Len(tick.log) : tick.log[m].op # "exec"

\* C11: when the reply to the VER 5 of connect() is not read as 024, no
\* port handle command is sent afterwards, the serial port ends closed and
\* the read timeout is the one from before the connect.
C11_Original ==
    (pc = "idle" /\ ticks > 0) =>
        \A k \in 1..Len(tick.log) :
            FirmwareRefusedAt(k) =>
                /\ \A m \in k..Len(tick.log) :
                      tick.log[m].op = "write" =>
                          StrNCpy(tick.log[m].arg, 0, 4) \notin PortHandleVerbs
                /\ ~mSerialPort.opened
                /\ mReadTimeout = Constructed.mReadTimeout

\* The last Connected event carried a port name.
ConnectedNamed == Events.Connected # <<>> /\ Events.Connected[1] # ""

\* C12: the last Connected event carries a port name only while the serial
\* port is open and the bring-up has succeeded; after connect() has failed
\* (port not opened, no RESET, INIT not acknowledged, firmware refused) the
\* last Connected event carries the empty string.
C12_Original ==
    (pc = "idle" /\ ConnectedNamed) =>
        /\ mSerialPort.opened
        /\ \A k \in 1..Len(tick.log) : ~FirmwareRefusedAt(k)

\* The commands that open a session, as the first four bytes written.
SessionVerbs == {<<"C", "O", "M", "M">>, <<"I", "N", "I", "T">>, <<"V", "E", "R", " ">>}

\* A Connect was executed in the last period and no port name is configured
\* after it: each Connect of the period went through the candidates and none
\* of them answered the break with RESET.
DiscoveryFailed ==
    /\ pc = "idle"
    /\ ticks > 0
    /\ \E k \in 1..Len(tick.log) : tick.log[k] = [op |-> "exec", arg |-> <<"Connect">>]
    /\ mSerialPortName = ""

ProbeRom == <<"p", "r", "o", "b", "e", ".", "r", "o", "m">>

\* The tool elements a configuration file can hold: two names and the serial
\* numbers of the first tool and of the passive one, with or without a tool
\* definition file.
ConfigTools ==
    {[name |-> tool[1], serialNumber |-> DeviceTools[tool[2]].serial,
      definition |-> tool[3], tooltip |-> Zero3] :
        tool \in {<<<<"P", "r", "o", "b", "e">>, 1, <<>>>>,
                  <<<<"R", "e", "f">>, 1, ProbeRom>>,
                  <<<<"P", "r", "o", "b", "e">>, 3, ProbeRom>>,
                  <<<<"R", "e", "f">>, 3, ProbeRom>>}}

\* Configure reads one more tool element, before the task runs.
ConfigureTool ==
    /\ pc = "idle"
    /\ ticks = 0
    /\ submitted = 0
    /\ \E tool \in ConfigTools : Becomes(Configure([State EXCEPT !.tick = NoTick], tool))
    /\ UNCHANGED <<mailbox, submitted, ticks>>

ToolsCommands ==
    {Command("Connect", "", FALSE), Command("PortHandlesQuery", "", FALSE)}

SubmitTools == \E c \in ToolsCommands : Submit(c)

InitTools ==
    /\ \E kit \in {"probes", "dual"}, faults \in 0..MaxFaults :
          Holds([Constructed EXCEPT !.device.kit = kit,
                                    !.device.noise = "query",
                                    !.device.faults = faults])
    /\ mailbox = <<>>
    /\ submitted = 0
    /\ ticks = 0

NextTools == ConfigureTool \/ SubmitTools \/ RunTick

SpecTools == InitTools /\ [][NextTools]_vars

\* How many UpdatedTools events the history of s holds.
UpdatedToolsEvents(s) ==
    Cardinality({k \in 1..Len(s.tick.log) :
                    s.tick.log[k] = [op |-> "event", arg |-> <<"UpdatedTools">>]})

\* The names of the tools of the registry that have the serial number.
HeldWithSerial(serialNumber) ==
    {name \in DOMAIN mTools : mTools[name].SerialNumber = serialNumber}

\* What AddTool(tool.name, tool.serialNumber, tool.definition) does to the
\* present state, by the three cases of the registry.
AddToolContract(tool) ==
    LET r == AddTool(State, tool.name, tool.serialNumber, tool.definition)
    IN  IF HeldWithSerial(tool.serialNumber) # {}
        THEN r.tool \in HeldWithSerial(tool.serialNumber) /\ r.s = State
        ELSE IF tool.name \in DOMAIN mTools
        THEN r.tool = NullTool /\ r.s = State
        ELSE /\ r.tool = tool.name
             /\ DOMAIN r.s.mTools = DOMAIN mTools \cup {tool.name}
             /\ \A name \in DOMAIN mTools : r.s.mTools[name] = mTools[name]
             /\ r.s.mTools[tool.name].Name = tool.name
             /\ r.s.mTools[tool.name].SerialNumber = tool.serialNumber
             /\ r.s.mTools[tool.name].Definition = tool.definition
             /\ {r.s.mToolNames[k] : k \in 1..Len(r.s.mToolNames)} = DOMAIN r.s.mTools
             /\ Len(r.s.mToolNames) = Cardinality(DOMAIN r.s.mTools)
             /\ UpdatedToolsEvents(r.s) = UpdatedToolsEvents(State) + 1
             /\ [r.s EXCEPT !.mTools = mTools, !.mToolNames = mToolNames,
                            !.tick = tick] = State

\* C14: AddTool on a registry that holds a tool with the serial number
\* returns that tool and changes nothing; on a name the registry holds,
\* with a new serial number, it returns no tool and changes nothing;
\* otherwise it adds one tool, publishes the names of the registry and
\* emits one UpdatedTools event.
C14_AddTool == pc = "idle" => \A tool \in ConfigTools : AddToolContract(tool)

\* A registry that Configure has added to, on which the tool elements meet
\* all three cases.
C14_Witness ==
    /\ pc = "idle"
    /\ UpdatedToolsEvents(State) > 0
    /\ \E tool \in ConfigTools : HeldWithSerial(tool.serialNumber) # {}
    /\ \E tool \in ConfigTools :
          HeldWithSerial(tool.serialNumber) = {} /\ tool.name \in DOMAIN mTools
    /\ \E tool \in ConfigTools :
          HeldWithSerial(tool.serialNumber) = {} /\ tool.name \notin DOMAIN mTools

\* C15: any two tools of the registry have different serial numbers, and any
\* two port handles of the tracker that the port map holds (the two channels
\* of a dual 5-DoF tool among them) are mapped to two different tools.
C15_Original ==
    pc = "idle" =>
        /\ \A n \in DOMAIN mTools, m \in DOMAIN mTools :
              n # m => mTools[n].SerialNumber # mTools[m].SerialNumber
        /\ \A h \in DOMAIN mPortToTool, g \in DOMAIN mPortToTool :
              (h # g /\ HandleIndex(h) # 0 /\ HandleIndex(g) # 0) =>
                  mPortToTool[h] # mPortToTool[g]

\* C16: every entry of the port map, port handle h to tool t, has
\* t.PortHandle = h, h not empty; the entries of passive tools and of handles
\* a later PortHandlesQuery does not report are among them.
C16_Original ==
    pc = "idle" =>
        \A h \in DOMAIN mPortToTool :
            /\ h # <<>>
            /\ mPortToTool[h] \in DOMAIN mTools
            /\ KeyOf(mTools[mPortToTool[h]].PortHandle) = h

(***************************************************************************)
(* SpecBeep: Beep on a connected component                                 *)
(*                                                                         *)
(* The component is connected, on a line that did not fail; from then on   *)
(* consumers queue Beep and the line can fail MaxFaults times.             *)
(***************************************************************************)
\* The numbers consumers ask for: the ends of the valid range and the
\* numbers next to them.
BeepNumbers == {0, 1, 9, 10}

BeepCommands ==
    {[Command("Beep", "", FALSE) EXCEPT !.number = n] : n \in BeepNumbers}

SubmitBeep == \E c \in BeepCommands : Submit(c)

InitBeep ==
    /\ \E c \in Connect(Constructed, "") :
          Holds([c EXCEPT !.device.noise = "always",
                          !.device.faults = MaxFaults,
                          !.tick = NoTick])
    /\ mailbox = <<>>
    /\ submitted = 0
    /\ ticks = 0

NextBeep == SubmitBeep \/ RunTick

SpecBeep == InitBeep /\ [][NextBeep]_vars

\* Entry k of the history is the call of Beep with a number.
BeepCalled(k) ==
    /\ tick.log[k].op = "exec"
    /\ tick.log[k].arg[1] = "Beep"

\* C17: Beep with a number outside 1..9 is rejected, no command is written
\* and no response read; Beep(n) with n in 1..9 sends BEEP n.
C17_Original ==
    (pc = "idle" /\ ticks > 0) =>
        \A k \in 1..Len(tick.log) :
            BeepCalled(k) =>
                IF tick.log[k].arg[2] \in 1..9
                THEN /\ k < Len(tick.log)
                     /\ tick.log[k + 1] =
                            [op |-> "write",
                             arg |-> <<"B", "E", "E", "P", " ",
                                       HexDigits[tick.log[k].arg[2] + 1]>>]
                ELSE k = Len(tick.log) \/ tick.log[k + 1].op = "exec"

\* The last of TXReplies, the reply with over-wide translation fields.
WideReply == Len(TXReplies)

\* C18: the frame number of a tool does not decrease from one period to the
\* next while the frame counter of the tracker counts up, whatever happened
\* to the TX reply of the period on the line (damaged, late, cut short) and
\* whatever it says of the tool (MISSING, DISABLED, UNOCCUPIED); the reply
\* has fields of the wire's widths.
C18_Original ==
    (pc = "idle" /\ ticks > 0 /\ tick.track.ran /\ device.sent # WideReply) =>
        \A name \in DOMAIN tick.before.mTools :
            tick.before.mTools[name].FrameNumber # Indeterminate =>
                tick.before.mTools[name].FrameNumber <= mTools[name].FrameNumber

\* Four upper-case hex digits.
IsCRCField(field) ==
    /\ Len(field) = CRC_SIZE
    /\ \A i \in 1..Len(field) : \E d \in 1..Len(HexDigits) : field[i] = HexDigits[d]

\* The payload of a line that is long enough to hold a CRC field and a CR.
PayloadOf(bytes) ==
    IF Len(bytes) > CRC_SIZE THEN SubSeq(bytes, 1, Len(bytes) - (CRC_SIZE + 1))
    ELSE <<>>

\* C19: ComputeCRC of a non-empty string is in 0..65535 and %04X writes it
\* as exactly 4 upper-case hex digits; the CRC of OKAY is A896, and the line
\* OKAYA896<CR>, read before the timeout, is read successfully and leaves the
\* payload OKAY.
C19_CRC ==
    /\ Format04X(ComputeCRC(OKAY)) = <<"A", "8", "9", "6">>
    /\ lastRead.done =>
          /\ \A data \in {PayloadOf(lastRead.received), CString(mSerialBuffer, 0)} :
                data # <<>> =>
                    /\ ComputeCRC(data) \in 0..65535
                    /\ IsCRCField(Format04X(ComputeCRC(data)))
          /\ (/\ lastRead.received = OKAY \o <<"A", "8", "9", "6", CR>>
              /\ lastRead.elapsed = "before") =>
                /\ lastRead.ok
                /\ CString(mSerialBuffer, 0) = OKAY

\* The line OKAYA896<CR> has been read.
C19_Witness ==
    /\ lastRead.done
    /\ lastRead.ok
    /\ lastRead.received = OKAY \o <<"A", "8", "9", "6", CR>>
    /\ CString(mSerialBuffer, 0) = OKAY

\* Entry k of the history is the writing of a command that starts with verb
\* and the port handle h.
WrittenAt(k, verb, h) ==
    /\ tick.log[k].op = "write"
    /\ StrNCmpEq(tick.log[k].arg, 0, verb \o h)

\* The period ran Connect first, and the reply to every command written in
\* the period was read whole and was the one expected.
ConnectAcknowledged ==
    /\ tick.log # <<>>
    /\ Head(tick.log) = [op |-> "exec", arg |-> <<"Connect">>]
    /\ \A k \in 1..Len(tick.log) :
          (/\ tick.log[k].op \in {"read", "match"}
           /\ \E j \in 1..(k - 1) : tick.log[j].op = "write") =>
              tick.log[k].arg = <<"ok">>

\* C20: in a period that runs connect() with every command acknowledged, for
\* every port handle h of the tracker PHINF h is written only after a
\* PINIT h and PENA h only after a PHINF h, and a handle the tracker gave out
\* on PHRQ is enabled at the end.
C20_Original ==
    (pc = "idle" /\ ticks > 0 /\ ConnectAcknowledged) =>
        \A i \in 1..Len(Handles) :
            /\ \A k \in 1..Len(tick.log) :
                  /\ WrittenAt(k, PHINF, Handles[i]) =>
                        \E j \in 1..(k - 1) :
                            WrittenAt(j, <<"P", "I", "N", "I", "T", " ">>, Handles[i])
                  /\ WrittenAt(k, <<"P", "E", "N", "A", " ">>, Handles[i]) =>
                        \E j \in 1..(k - 1) : WrittenAt(j, PHINF, Handles[i])
            /\ (PortsSwitchedOn[i] = "free" /\ device.ports[i] # "free") =>
                  device.ports[i] = "enabled"

PHRQ == <<"P", "H", "R", "Q", " ">>
PHSR01 == <<"P", "H", "S", "R", " ", "0", "1">>

\* The period executed Connect and nothing else.
OnlyConnect ==
    /\ tick.log # <<>>
    /\ Head(tick.log) = [op |-> "exec", arg |-> <<"Connect">>]
    /\ \A k \in 2..Len(tick.log) : tick.log[k].op # "exec"

\* C21: in a period that runs connect(), every PHRQ (the loading of the
\* passive tools' definitions) is written before the first PHSR 01 (the
\* initialization of the port handles).
C21_Original ==
    (pc = "idle" /\ ticks > 0 /\ OnlyConnect) =>
        \A k \in 1..Len(tick.log), j \in 1..Len(tick.log) :
            (/\ tick.log[k].op = "write" /\ StrNCmpEq(tick.log[k].arg, 0, PHRQ)
             /\ tick.log[j] = [op |-> "write", arg |-> PHSR01]) => k < j

\* Entry k of the history is the writing of a command that starts with verb,
\* in the last call of the period, and the reply was not read as the one the
\* caller expects.
RefusedAt(k, verb) ==
    /\ k + 2 <= Len(tick.log)
    /\ tick.log[k].op = "write"
    /\ StrNCmpEq(tick.log[k].arg, 0, verb)
    /\ tick.log[k + 2] = [op |-> "match", arg |-> <<"failed">>]
    /\ \A m \in k..Len(tick.log) : tick.log[m].op # "exec"

\* C22: when the reply to the COMM or to the INIT of connect() is not read
\* as OKAY, no command is written afterwards, and a connect() that was the
\* first to run has emitted no Connected event with a port name.
C22_Original ==
    (pc = "idle" /\ ticks > 0) =>
        \A k \in 1..Len(tick.log) :
            (RefusedAt(k, <<"C", "O", "M", "M", " ">>)
             \/ RefusedAt(k, <<"I", "N", "I", "T", " ">>)) =>
                /\ \A m \in (k + 1)..Len(tick.log) : tick.log[m].op # "write"
                /\ (ticks = 1 /\ OnlyConnect) => ~ConnectedNamed

\* Entry k of the history is the writing of COMM in the last call of the
\* period, and a command was written after it.
WroteAfterCOMM(k) ==
    /\ tick.log[k].op = "write"
    /\ StrNCmpEq(tick.log[k].arg, 0, <<"C", "O", "M", "M", " ">>)
    /\ \A m \in k..Len(tick.log) : tick.log[m].op # "exec"
    /\ \E m \in (k + 1)..Len(tick.log) : tick.log[m].op = "write"

\* C23: once connect() has written a command after its COMM exchange, the
\* serial port and the tracker have the same baud rate, whatever happened to
\* the reply to COMM (lost, damaged, late).
C23_Original ==
    (pc = "idle" /\ ticks > 0) =>
        \A k \in 1..Len(tick.log) :
            WroteAfterCOMM(k) => mSerialPort.baud = device.baud

\* The entries of the history that open or close a port, in order.
PortEvents == SelectSeq(tick.log, LAMBDA e : e.op \in {"open", "close"})

\* The names of the ports opened in the period, in order.
Opened == [k \in 1..Len(SelectSeq(tick.log, LAMBDA e : e.op = "open")) |->
              SelectSeq(tick.log, LAMBDA e : e.op = "open")[k].arg[1]]

\* Entry k of the history is a break that was answered: RESET was read.
AnsweredAt(k) ==
    /\ tick.log[k].op = "break"
    /\ k + 2 <= Len(tick.log)
    /\ tick.log[k + 2] = [op |-> "match", arg |-> <<"ok">>]

\* The last entry of the history before entry k with the given op, 0 if none.
LastBefore(k, op) ==
    IF \E j \in 1..(k - 1) : tick.log[j].op = op
    THEN CHOOSE j \in 1..(k - 1) :
             /\ tick.log[j].op = op
             /\ \A m \in (j + 1)..(k - 1) : tick.log[m].op # op
    ELSE 0

MaxZeros == 4

HandlesCommands ==
    {Command("Connect", TrackerPort, FALSE), Command("PortHandlesQuery", "", FALSE),
     Command("PortHandlesEnable", "", FALSE)}

SubmitHandles == \E c \in HandlesCommands : Submit(c)

InitHandles ==
    /\ \E kit \in DOMAIN Kits, zeros \in 0..MaxZeros :
          Holds([Constructed EXCEPT !.device.kit = kit, !.device.zeros = zeros])
    /\ mailbox = <<>>
    /\ submitted = 0
    /\ ticks = 0

NextHandles == SubmitHandles \/ RunTick

SpecHandles == InitHandles /\ [][NextHandles]_vars

PHSR00 == <<"P", "H", "S", "R", " ", "0", "0">>

\* How many times the last call of the period wrote PHSR 00: once for each
\* time PortHandlesQuery was entered.
QueriesEntered ==
    Cardinality({k \in 1..Len(tick.log) :
                    /\ tick.log[k] = [op |-> "write", arg |-> PHSR00]
                    /\ \A m \in k..Len(tick.log) : tick.log[m].op # "exec"})

\* C25: a call of PortHandlesQuery, or of connect(), enters PortHandlesQuery
\* again at most 3 times, however long the tracker reports serial numbers of
\* all zeros.
C25_Original ==
    (pc = "idle" /\ ticks > 0) => QueriesEntered <= 1 + 3

PENA == <<"P", "E", "N", "A", " ">>

\* The handles PHSR 03 listed to the PortHandlesEnable of a first connect():
\* those the tracker has initialized, enabled or not.
ListedToEnable == {i \in 1..Len(Handles) : device.ports[i] \in {"initialized", "enabled"}}

\* The main type of the tool at handle i of the tracker.
MainTypeAt(i) == Kits[device.kit][i].mainType

\* The PENA commands written for handle i in the period.
EnablesOf(i) ==
    {k \in 1..Len(tick.log) :
        tick.log[k].op = "write" /\ StrNCmpEq(tick.log[k].arg, 0, PENA \o Handles[i])}

\* The period ran a first connect() to its end, through PortHandlesEnable.
ConnectedThrough ==
    /\ pc = "idle"
    /\ ticks = 1
    /\ OnlyConnect
    /\ \E k \in 1..Len(tick.log) :
          tick.log[k] = [op |-> "write", arg |-> <<"P", "H", "S", "R", " ", "0", "3">>]

\* C26: for every handle PHSR 03 lists, connect() writes exactly one PENA
\* command if the main type of its tool is 01 (mode S), 02, 04 or 0A (mode
\* D) or 03 (mode B), and none if it is another.
C26_Original ==
    ConnectedThrough =>
        \A i \in ListedToEnable :
            LET mode == IF MainTypeAt(i) = <<"0", "1">> THEN <<"S">>
                        ELSE IF MainTypeAt(i) \in {<<"0", "2">>, <<"0", "4">>, <<"0", "A">>}
                        THEN <<"D">>
                        ELSE IF MainTypeAt(i) = <<"0", "3">> THEN <<"B">>
                        ELSE <<>>
            IN  IF mode = <<>> THEN EnablesOf(i) = {}
                ELSE /\ Cardinality(EnablesOf(i)) = 1
                     /\ \A k \in EnablesOf(i) : tick.log[k].arg = PENA \o Handles[i] \o mode

\* The main types PortHandlesEnable knows.
Recognized == {<<"0", "1">>, <<"0", "2">>, <<"0", "3">>, <<"0", "4">>, <<"0", "A">>}

\* C27: when PHSR 03 lists a handle whose tool has a main type that is not
\* recognized, every other handle it lists, before or after that one, gets
\* its PENA command.
C27_Original ==
    (ConnectedThrough /\ \E j \in ListedToEnable : MainTypeAt(j) \notin Recognized) =>
        \A i \in ListedToEnable :
            MainTypeAt(i) \in Recognized => EnablesOf(i) # {}

(***************************************************************************)
(* SpecLoad: the loading of tool definition files                          *)
(*                                                                         *)
(* One passive tool is configured, with any of the tool definition files;  *)
(* the line does not fail.  Consumers queue Connect, PortHandlesQuery and  *)
(* PortHandlesEnable.                                                      *)
(***************************************************************************)
\* The passive tool of the configuration file.
PassiveTool(definition) ==
    [name |-> <<"R", "e", "f">>, serialNumber |-> DeviceTools[3].serial,
     definition |-> definition, tooltip |-> Zero3]

InitLoad ==
    /\ \E path \in DOMAIN ToolDefinitionFiles :
          Holds(Configure(Constructed, PassiveTool(path)))
    /\ mailbox = <<>>
    /\ submitted = 0
    /\ ticks = 0

SpecLoad == InitLoad /\ [][NextHandles]_vars

PVWR == <<"P", "V", "W", "R", " ">>

\* The PVWR commands the period wrote, in order.
Chunks == SelectSeq(tick.log, LAMBDA e : e.op = "write" /\ StrNCmpEq(e.arg, 0, PVWR))

\* The size of the tool definition file of the passive tool.
FileSize == Len(ToolDefinitionFiles[mTools[PassiveTool(<<>>).name].Definition])

\* ceil(n / d)
CeilDiv(n, d) == (n + d - 1) \div d

\* C28: for a tool definition file of 1..960 bytes connect() writes
\* ceil(2 * size / 128) PVWR commands, with the addresses 0, 64, 128, ... as
\* 4 upper-case hex digits in this order (15 commands for 960 bytes); for a
\* larger file it writes none.
C28_Original ==
    ConnectedThrough =>
        /\ Len(Chunks) = IF FileSize > 960 THEN 0 ELSE CeilDiv(2 * FileSize, 128)
        /\ \A i \in 1..Len(Chunks) :
              StrNCpy(Chunks[i].arg, Len(PVWR) + 2, 4) = HexField((i - 1) * 64, 4)

\* Byte j (from 1) of the payload of a PVWR command, decoded from its two hex
\* digits; the payload follows the verb, the port handle and the address.
PayloadByte(command, j) ==
    16 * HexValue(At(command, Len(PVWR) + 6 + 2 * (j - 1)))
    + HexValue(At(command, Len(PVWR) + 6 + 2 * (j - 1) + 1))

\* C29: the payloads of the PVWR commands of connect(), decoded and put one
\* after the other, are the bytes of the tool definition file (of at most 960
\* bytes) in order, followed by zero bytes only.
C29_Original ==
    (ConnectedThrough /\ FileSize <= 960) =>
        \A i \in 1..Len(Chunks) :
            \A j \in 1..64 :
                PayloadByte(Chunks[i].arg, j) =
                    IF 64 * (i - 1) + j <= FileSize
                    THEN ToolDefinitionFiles[mTools[PassiveTool(<<>>).name].Definition][64 * (i - 1) + j]
                    ELSE 0

(***************************************************************************)
(* SpecExpect: ResponseRead(expectedMessage) on the replies of a line      *)
(*                                                                         *)
(* A reply waits in the opened port, whole or late or damaged: a message   *)
(* the code expects somewhere, a part of one, or another; the code reads   *)
(* it expecting one of the messages.                                       *)
(***************************************************************************)
\* The messages the code expects: those of ResetSerialPort, of
\* SetSerialPortSettings and of the firmware check of Connect.
Expectations == {RESET, OKAY, <<"0", "2", "4">>}

\* The payloads on the line: the beginnings of the expected messages, the
\* messages with something after them, and others.
ExpectPayloads ==
    UNION {{SubSeq(e, 1, n) : n \in 0..Len(e)} \cup {e \o <<"0">>} : e \in Expectations}
    \cup {ERROR01, <<"0", "2", "3">>, <<"O", "K", "O", "K">>}

InitExpect ==
    /\ \E payload \in ExpectPayloads, late \in BOOLEAN :
          \E bytes \in {Frame(payload), Damaged(Frame(payload))} :
             Holds([Constructed EXCEPT
                       !.mSerialPort = [opened |-> TRUE, name |-> TrackerPort,
                                        baud |-> 9600],
                       !.rx = [bytes |-> bytes, stale |-> 0, late |-> late]])
    /\ mailbox = <<>>
    /\ submitted = 0
    /\ ticks = 0

\* One call of ResponseRead(expectedMessage); the history begins with the
\* message expected.
ReadExpected ==
    /\ tick.log = <<>>
    /\ \E expectedMessage \in Expectations :
          \E r \in ResponseReadExpected(Logged(State, "expect", expectedMessage),
                                        expectedMessage) :
             Becomes(r.s)
    /\ UNCHANGED <<mailbox, submitted, ticks>>

NextExpect == ReadExpected

SpecExpect == InitExpect /\ [][NextExpect]_vars

\* The history of a call of ResponseRead(expectedMessage) that has got as far
\* as ResponseRead(void): what was expected, how the read went, the verdict.
Expected == tick.log[1].arg

\* The payload read: the bytes in front of the CRC.
PayloadRead == CString(mSerialBuffer, 0)

\* C30: ResponseRead(expectedMessage) succeeds if and only if the read
\* succeeded and the payload begins with the expected message; it fails on an
\* empty payload and on one that is only a beginning of the message.
C30_Original ==
    Len(tick.log) = 3 =>
        (tick.log[3] = [op |-> "match", arg |-> <<"ok">>]
         <=> /\ tick.log[2] = [op |-> "read", arg |-> <<"ok">>]
             /\ Len(PayloadRead) >= Len(Expected)
             /\ SubSeq(PayloadRead, 1, Len(Expected)) = Expected)

(***************************************************************************)
(* C31: the visibility column of the stray marker rows                      *)
(***************************************************************************)
\* The nibble a hexadecimal digit encodes.
NibbleOf(c) == (CHOOSE i \in 1..Len(HexDigits) : HexDigits[i] = c) - 1

\* The inverted bit at position p of the bit string of the flag characters,
\* each character giving the 4 bits of its nibble, most significant first.
InvertedFlagBit(flags, p) ==
    1 - ((NibbleOf(flags[(p \div 4) + 1]) \div (2 ^ (3 - (p % 4)))) % 2)

\* The last period's Track read the tracker's reply to its own TX, fresh and
\* whole, and parsed it to the end; the reply counts no more markers than
\* the matrix has rows.
StraysParsed ==
    /\ ticks > 0
    /\ pc = "idle"
    /\ StraysAsked
    /\ tick.track.ok
    /\ ~tick.track.returned
    /\ lastRead.stale = 0
    /\ tick.track.numMarkers = ReportedCount
    /\ ReportedCount \in 1..StrayRows

\* C31, as stated: column 1 of stray marker row k (0 <= k < m) is the
\* inverted flag bit at position k + (4 * ceil(m / 4) - m) of the bit string
\* of the out-of-volume characters of the TX reply, each character giving
\* the 4 bits of the nibble it encodes, most significant first; for 3
\* markers and the flag character E the visibilities are 0, 0, 1.
C31_Original ==
    StraysParsed =>
        LET strays == TXReplies[tick.track.sent].strays
            m == strays.count
        IN  \A k \in 0..(m - 1) :
               mStrayMarkers[k][2] =
                   InvertedFlagBit(strays.flags, k + ((4 * ((m + 3) \div 4)) - m))

(***************************************************************************)
(* SpecBusy: Beep at a tracker that answers busy                           *)
(*                                                                         *)
(* As SpecBeep, with a tracker that is idle, busy until it has answered    *)
(* one BEEP, or busy for good.                                             *)
(***************************************************************************)
BusyModes == {"idle", "once", "forever"}

InitBusy ==
    /\ \E c \in Connect(Constructed, ""), busy \in BusyModes :
          Holds([c EXCEPT !.device.noise = "always",
                          !.device.faults = MaxFaults,
                          !.device.busy = busy,
                          !.tick = NoTick])
    /\ mailbox = <<>>
    /\ submitted = 0
    /\ ticks = 0

SpecBusy == InitBusy /\ [][NextBeep]_vars

\* Entry k of the history is the write of a BEEP command.
BeepWritten(k) ==
    /\ tick.log[k].op = "write"
    /\ StrNCmpEq(tick.log[k].arg, 0, <<"B", "E", "E", "P", " ">>)

\* A call of Beep that returned did so on a failed read or on a response
\* that does not begin with 0, and a call that met a busy tracker wrote
\* BEEP again.
BeepReturned ==
    (pc = "idle" /\ tick.log # <<>> /\ Len(tick.log) > 1
                /\ BeepWritten(Len(tick.log) - 1)) =>
        /\ tick.log[Len(tick.log)].op = "read"
        /\ lastRead.ok => ~StrNCmpEq(mSerialBuffer, 0, <<"0">>)

\* A call of Beep wrote BEEP twice and returned.
BeepAgain ==
    /\ pc = "idle"
    /\ \E k \in 1..Len(tick.log) :
          /\ BeepCalled(k)
          /\ k + 4 <= Len(tick.log)
          /\ BeepWritten(k + 1)
          /\ BeepWritten(k + 3)
          /\ tick.log[k + 4] = [op |-> "read", arg |-> <<"ok">>]

\* C32, as stated: every call of Beep returns; the number of BEEP commands
\* one call sends is bounded even when the tracker answers busy to every
\* one of them, so that a queued Beep never keeps the periodic task in its
\* loop.
C32_Original == pc # "Beep"

(***************************************************************************)
(* C33: ToggleTracking                                                      *)
(***************************************************************************)
\* Entry k of the history is TSTART 80 or TSTOP given to CommandSend.
ToggleWritten(k) ==
    /\ tick.log[k].op \in {"write", "unsent"}
    /\ tick.log[k].arg \in {TSTART, TSTOP}

\* Entry k of the history is a Tracking event.
TrackingEmitted(k) ==
    /\ tick.log[k].op = "event"
    /\ tick.log[k].arg[1] = "Tracking"

\* The period that ends was given one command, ToggleTracking, and Run
\* returned.
ToggledAlone ==
    /\ Len(mailbox) = 1
    /\ mailbox[1].name = "ToggleTracking"
    /\ ticks' = ticks + 1
    /\ pc' = "idle"

\* C33: a ToggleTracking whose ResponseRead("OKAY") fails (the reply to
\* TSTART 80 or TSTOP is another one, has a wrong CRC or does not come in
\* time) leaves mIsTracking as it was and emits no Tracking event; a
\* ToggleTracking(x) called while mIsTracking is x gives no command to
\* CommandSend and emits no event.
C33_ToggleTracking ==
    [][ToggledAlone =>
           /\ \A k \in 1..Len(tick'.log) :
                 (ToggleWritten(k)' /\ tick'.log[k + 2].arg = <<"failed">>) =>
                     /\ mIsTracking' = mIsTracking
                     /\ \A m \in 1..Len(tick'.log) : ~TrackingEmitted(m)'
           /\ mailbox[1].track = mIsTracking =>
                 /\ mIsTracking' = mIsTracking
                 /\ \A k \in 1..Len(tick'.log) :
                       ~ToggleWritten(k)' /\ ~TrackingEmitted(k)']_vars

\* A period executed ToggleTracking alone, TSTART 80 was written, and the
\* reply read was not OKAY: the component is not tracking.
C33_Witness ==
    /\ pc = "idle"
    /\ Len(tick.log) >= 4
    /\ tick.log[1] = [op |-> "exec", arg |-> <<"ToggleTracking">>]
    /\ tick.log[2] = [op |-> "write", arg |-> TSTART]
    /\ tick.log[4] = [op |-> "match", arg |-> <<"failed">>]
    /\ Len(tick.executed) = 1
    /\ ~mIsTracking

(***************************************************************************)
(* C34: tracking and the state of the line                                  *)
(***************************************************************************)
\* C34, as stated: whenever the component holds itself to be tracking the
\* serial port is open and the tracker is in tracking mode; a Connect
\* executed while tracking, which closes the port and resets the tracker,
\* does not leave mIsTracking true.
C34_Original ==
    (pc = "idle" /\ mIsTracking) => (mSerialPort.opened /\ device.tracking)

\* The same for the periods of a line that has lost, damaged or delayed
\* nothing so far.
C34_OnGoodLine ==
    (pc = "idle" /\ mIsTracking /\ device.faults = MaxFaults)
        => (mSerialPort.opened /\ device.tracking)

(***************************************************************************)
(* C35: Disconnect                                                          *)
(***************************************************************************)
\* The period that ends was given Disconnect as its last command, and Run
\* returned.
DisconnectedLast ==
    /\ mailbox # <<>>
    /\ mailbox[Len(mailbox)].name = "Disconnect"
    /\ ticks' = ticks + 1
    /\ pc' = "idle"

\* C35: after Disconnect has returned, whatever was read in reply to TSTOP
\* (OKAY, something else, or nothing), mIsTracking is false, the serial
\* port is closed and the last Connected event carries the empty string; a
\* Disconnect called while not tracking gives no TSTOP to CommandSend.
C35_Disconnect ==
    [][DisconnectedLast =>
           /\ ~mIsTracking'
           /\ ~mSerialPort'.opened
           /\ Events'.Connected = <<"">>
           /\ (Len(mailbox) = 1 /\ ~mIsTracking) =>
                 \A k \in 1..Len(tick'.log) : ~ToggleWritten(k)']_vars

\* A period executed Disconnect alone while tracking, TSTOP was written and
\* no OKAY was read in reply: the component is not tracking and the port is
\* closed.
C35_Witness ==
    /\ pc = "idle"
    /\ Len(tick.log) >= 4
    /\ tick.log[1] = [op |-> "exec", arg |-> <<"Disconnect">>]
    /\ tick.log[2] = [op |-> "write", arg |-> TSTOP]
    /\ tick.log[4] = [op |-> "match", arg |-> <<"failed">>]
    /\ Len(tick.executed) = 1
    /\ ~mIsTracking
    /\ ~mSerialPort.opened

(***************************************************************************)
(* C36: ReportStrayMarkers and the tracking state                           *)
(***************************************************************************)
\* The period that ends was given one command, ReportStrayMarkers, and Run
\* returned.
ReportedAlone ==
    /\ Len(mailbox) = 1
    /\ mailbox[1].name = "ReportStrayMarkers"
    /\ ticks' = ticks + 1
    /\ pc' = "idle"

\* C36, as stated: ReportStrayMarkers restores the tracking state, whether
\* or not its TSTART and its TSTOP are acknowledged: mIsTracking is after
\* the call what it was before, and it is the mode the tracker is in if it
\* was so before the call.
C36_Original ==
    [][ReportedAlone =>
           /\ mIsTracking' = mIsTracking
           /\ (mIsTracking = device.tracking) => (mIsTracking' = device'.tracking)]_vars

(***************************************************************************)
(* SpecNames: PortHandlesQuery with a tool configured under a name the     *)
(* query generates                                                         *)
(*                                                                         *)
(* The component was configured with one tool, whose name is that of the   *)
(* configuration file: a name of its own or the main type and serial       *)
(* number of the tracker's first tool, as PortHandlesQuery names the tools *)
(* it finds; the line does not fail.                                       *)
(***************************************************************************)
\* The name PortHandlesQuery gives the tracker's first tool.
GeneratedName == DeviceTools[1].mainType \o <<"-">> \o DeviceTools[1].serial

\* The tool elements: the first tool under its generated name, another
\* serial number under that name, and the first tool under a name of its
\* own.
NamedTools ==
    {[name |-> tool[1], serialNumber |-> DeviceTools[tool[2]].serial,
      definition |-> <<>>, tooltip |-> Zero3] :
        tool \in {<<GeneratedName, 1>>, <<GeneratedName, 2>>,
                  <<<<"P", "r", "o", "b", "e">>, 1>>}}

InitNames ==
    /\ \E tool \in NamedTools, kit \in {"probes", "buttons"} :
          Holds([Configure(Constructed, tool) EXCEPT !.device.kit = kit,
                                                     !.tick = NoTick])
    /\ mailbox = <<>>
    /\ submitted = 0
    /\ ticks = 0

SpecNames == InitNames /\ [][NextHandles]_vars

\* C37, as stated: PortHandlesQuery never uses a missing tool: the tool it
\* updates and puts in the port map for a PHINF reply is a tool of the
\* registry, and when AddTool returns no tool, because the generated name
\* is that of a registered tool with another serial number, the handle is
\* skipped and nothing is written through the missing tool.
C37_Original ==
    /\ pc # "crashed"
    /\ \A handle \in DOMAIN mPortToTool : mPortToTool[handle] \in DOMAIN mTools

(***************************************************************************)
(* C38: the CRC check stays inside the serial buffer                        *)
(***************************************************************************)
\* C38, as stated: for every response ResponseRead hands to the CRC check,
\* one of fewer than 5 bytes (a lone CR) and a read loop that ended with no
\* byte received included, ResponseCheckCRC reads and writes only inside
\* the serial buffer and leaves the write cursor at or after its start.
C38_Original ==
    (lastRead.done /\ lastRead.elapsed # "after") =>
        /\ ~lastRead.oob
        /\ mSerialBufferPointer >= 0

============================================================================
